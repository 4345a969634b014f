------------------------------ MODULE Objects ------------------------------
(***************************************************************************)
(* Versioned objects (src/daemon/db.h, db.cc and the object functions of   *)
(* db_manager.cc) as values and operators on them.                         *)
(*                                                                         *)
(* An object keeps its newest text (head) and the patches that led to it   *)
(* (diffs); a revision is named by the digest of its patch's text, which   *)
(* is assumed collision free: the patch stands for its own digest.         *)
(***************************************************************************)
EXTENDS Naturals, Sequences

CONSTANTS
  Regions,     \* places of a text, far enough apart for separate hunks
  Glyphs,      \* what a region may hold
  Blank,       \* what every region of the empty text holds
  Stamps,      \* readings of the clock, in seconds
  NoRev        \* the empty revision id

ASSUME TextAssumption == Blank \notin Glyphs

Texts == [Regions -> Glyphs \cup {Blank}]
EmptyText == [r \in Regions |-> Blank]

\* diff_match_patch: patch_make yields one hunk for every region that differs;
\* patch_apply looks for the text a hunk replaces and leaves the hunk out when
\* that text is not there.
patch_make(old, new) ==
  {[at |-> r, from |-> old[r], to |-> new[r]] : r \in {s \in Regions : old[s] # new[s]}}
patch_apply(p, text) ==
  [r \in Regions |->
    IF \E h \in p : h.at = r /\ h.from = text[r]
      THEN (CHOOSE h \in p : h.at = r /\ h.from = text[r]).to
      ELSE text[r]]

Patches == SUBSET [at : Regions, from : Glyphs \cup {Blank}, to : Glyphs \cup {Blank}]
RevIds == Patches \cup {NoRev}

\* class Diff: the id is create_content_id's digest of the patch
Diff(patch, prev, time) == [id |-> patch, prev |-> prev, time |-> time, content |-> patch]
Diffs == [id : RevIds, prev : RevIds, time : Stamps, content : Patches]

\* class Object, as serialize archives it
ObjectsOver(ids) == [id : ids, master : RevIds, diffs : Seq(Diffs), head : Texts]

\* Object::create(inp, custom_id)
create(inp, id, time) ==
  LET diff == Diff(patch_make(EmptyText, inp), NoRev, time)
  IN  [id |-> id, master |-> diff.id, diffs |-> <<diff>>, head |-> inp]

\* Mutation: the diffs are replaced, not extended.
update_objectForgets(obj, text, time) ==
  LET diff == Diff(patch_make(obj.head, text), obj.master, time)
  IN  [obj EXCEPT !.diffs = <<diff>>, !.master = diff.id, !.head = text]

\* DBManager::update_object, up to save(): Object::get() is the head
update_object(obj, text, time) ==
  LET diff == Diff(patch_make(obj.head, text), obj.master, time)
  IN  [obj EXCEPT !.diffs = Append(@, diff), !.master = diff.id, !.head = text]

has_diff(obj, rev) == \E i \in DOMAIN obj.diffs : obj.diffs[i].id = rev

\* the text after the first n patches, applied one after the other to ""
Replay(diffs) ==
  LET text[n \in 0..Len(diffs)] ==
        IF n = 0 THEN EmptyText ELSE patch_apply(diffs[n].content, text[n - 1])
  IN  text

\* Mutation: the loop stops before the diff is applied.
get_revBefore(obj, rev) ==
  LET n == CHOOSE i \in DOMAIN obj.diffs :
             /\ obj.diffs[i].id = rev
             /\ \A j \in 1..(i - 1) : obj.diffs[j].id # rev
  IN  Replay(obj.diffs)[n - 1]

\* Object::get(revision) stops at the first diff with the revision's id
get_rev(obj, rev) ==
  LET n == CHOOSE i \in DOMAIN obj.diffs :
             /\ obj.diffs[i].id = rev
             /\ \A j \in 1..(i - 1) : obj.diffs[j].id # rev
  IN  Replay(obj.diffs)[n]

\* Mutation: master is not set.
rollback_objectHead(obj, rev) == [obj EXCEPT !.head = get_rev(obj, rev)]

\* Mutation: the diffs behind the revision are cut off.
rollback_objectCuts(obj, rev) ==
  LET n == CHOOSE i \in DOMAIN obj.diffs : obj.diffs[i].id = rev
  IN  [obj EXCEPT !.head = get_rev(obj, rev), !.master = rev,
                  !.diffs = SubSeq(@, 1, n)]

\* DBManager::rollback_object, up to save(): the diffs stay
rollback_object(obj, rev) == [obj EXCEPT !.head = get_rev(obj, rev), !.master = rev]
============================================================================
