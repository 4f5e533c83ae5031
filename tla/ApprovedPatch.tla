------------------------------ MODULE ApprovedPatch ------------------------------
(***************************************************************************)
(* What the user of file.patch is promised: a call shows one change of the *)
(* file as it is, and once the user approves, exactly that change is       *)
(* applied, as a single step, to exactly that file.  There are no prepared *)
(* patches, comparisons and temporary files here, and calls are not taken  *)
(* one at a time; FilePatch is shown to implement this specification.      *)
(***************************************************************************)
EXTENDS Integers, FiniteSets

CONSTANTS
    Calls,
    Contents,       \* contents the editor saves
    Absent,         \* no file, no change
    Shows(_, _)     \* the contents a call may propose for a content

VARIABLES
    file,           \* content of the target, or Absent
    change,         \* the change each call shows until it is decided or applied
    verdict,        \* what became of each call
    overtaken       \* approved calls whose file was saved too late to notice

vars == <<file, change, verdict, overtaken>>

Init == /\ file \in Contents
        /\ change = [c \in Calls |-> Absent]
        /\ verdict = [c \in Calls |-> "new"]
        /\ overtaken = {}

\* The change is forgotten: applied, refused or lost with the client.
Closes(c, as) == /\ verdict' = [verdict EXCEPT ![c] = as]
                 /\ change' = [change EXCEPT ![c] = Absent]
                 /\ overtaken' = overtaken \ {c}

Show(c) ==
    /\ verdict[c] = "new" /\ file # Absent
    /\ \E updated \in Shows(c, file) :
          change' = [change EXCEPT ![c] = [original |-> file, updated |-> updated]]
    /\ verdict' = [verdict EXCEPT ![c] = "shown"]
    /\ UNCHANGED <<file, overtaken>>

Approve(c) ==
    /\ verdict[c] = "shown" /\ verdict' = [verdict EXCEPT ![c] = "approved"]
    /\ UNCHANGED <<file, change, overtaken>>

\* The one step that writes the file.
Apply(c) ==
    /\ verdict[c] = "approved"
    /\ file = change[c].original \/ c \in overtaken
    /\ file' = change[c].updated
    /\ Closes(c, "applied")

\* The user says no, or a step fails: the file is as it was.
Refuse(c) ==
    /\ verdict[c] \in {"new", "shown", "approved"}
    /\ Closes(c, "refused")
    /\ UNCHANGED file

Report(c) ==
    /\ verdict[c] = "applied" /\ verdict' = [verdict EXCEPT ![c] = "reported"]
    /\ UNCHANGED <<file, change, overtaken>>

\* The client dies; its user learns nothing more of the call.
Lose(c) ==
    /\ verdict[c] \in {"shown", "approved", "applied"}
    /\ Closes(c, "lost")
    /\ UNCHANGED file

\* The editor saves or deletes the file, for some approved calls too late.
Save ==
    /\ file' \in Contents \cup {Absent}
    /\ \E late \in SUBSET {c \in Calls : verdict[c] = "approved"} :
          overtaken' = overtaken \cup late
    /\ UNCHANGED <<change, verdict>>

Next == Save \/ \E c \in Calls : \/ Show(c) \/ Approve(c) \/ Apply(c) \/ Refuse(c)
                                 \/ Report(c) \/ Lose(c)

Spec == Init /\ [][Next]_vars
================================================================================
