--------------------------- MODULE ObjectHistory ---------------------------
(***************************************************************************)
(* The life of one object in the hands of one caller: created, updated and *)
(* rolled back, as the test Object.revsion does it.                        *)
(***************************************************************************)
EXTENDS Objects

CONSTANTS
  Id,          \* the object's id
  MaxDiffs     \* bound: diffs an object may have

VARIABLES
  obj,         \* the object
  issued,      \* history: the revisions handed out, with the head they named
  linear       \* history: every update extended the last diff

vars == <<obj, issued, linear>>

Inputs == [Regions -> Glyphs]

Init ==
  \E text \in Inputs, time \in Stamps :
    /\ obj = create(text, Id, time)
    /\ issued = {<<obj.master, text>>}
    /\ linear = TRUE

Update(text, time) ==
  /\ Len(obj.diffs) < MaxDiffs
  /\ obj' = update_object(obj, text, time)
  /\ issued' = issued \cup {<<obj'.master, text>>}
  /\ linear' = (linear /\ obj.master = obj.diffs[Len(obj.diffs)].id)

\* get_object_rev answers false for a revision the object does not have
Rollback(rev) ==
  /\ has_diff(obj, rev)
  /\ obj' = rollback_object(obj, rev)
  /\ UNCHANGED <<issued, linear>>

Next ==
  \/ \E text \in Inputs, time \in Stamps : Update(text, time)
  \/ \E revision \in issued : Rollback(revision[1])

Spec == Init /\ [][Next]_vars
----------------------------------------------------------------------------
NoRepeatedPatch ==
  \A i, j \in DOMAIN obj.diffs : obj.diffs[i].id = obj.diffs[j].id => i = j

\* While every update extends the last diff and no two updates happen to make
\* the same patch, replaying the diffs of Object::get(revision) gives for every
\* revision ever handed out the text that was the head when it was handed out,
\* however often the object is rolled back and forth in between.
RevisionsReplay ==
  linear /\ NoRepeatedPatch =>
    \A revision \in issued : get_rev(obj, revision[1]) = revision[2]

\* The head is the text of the revision that master names: what save() stores
\* as the object's text and as its position in the history agree.
HeadIsMaster == linear /\ NoRepeatedPatch => obj.head = get_rev(obj, obj.master)

\* No revision is ever lost, not even by a rollback behind it.
RevisionsKept == \A revision \in issued : has_diff(obj, revision[1])
----------------------------------------------------------------------------
\* What the test Object.revsion expects of rollback_object: the head is again
\* the text it was when the revision was the master.
RollbackRestores ==
  \A revision \in issued : get_rev(obj, revision[1]) = revision[2]
============================================================================
