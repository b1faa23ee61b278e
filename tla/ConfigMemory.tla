---------------------------- MODULE ConfigMemory ----------------------------
(***************************************************************************)
(* What the configuration store promises to the rest of the controller: it *)
(* remembers whole sections.  A section is either remembered exactly as it *)
(* was in use, or it is forgotten; nothing in between can be recalled.     *)
(* Pages are forgotten as a whole (a flash page is erased as a whole).     *)
(***************************************************************************)
CONSTANTS
  Page,           \* flash pages
  Section,        \* parts of the configuration
  Offered(_),     \* the values a section may be changed to
  SectionsOf(_),  \* the sections of a page
  Factory(_),     \* the values a forgotten section may be replaced by
  Forgotten,      \* marks a section that is not remembered
  Cleared         \* the content of a section before it is recalled

VARIABLES
  use,   \* the section the controller works with
  kept   \* the section that survives a power failure

vars == <<use, kept>>

Init ==
  /\ use = [s \in Section |-> Cleared]
  /\ kept = [s \in Section |-> Forgotten]

\* A new section is put to use.
Change(s) ==
  /\ use' = [use EXCEPT ![s] = use'[s]]
  /\ use'[s] \in Offered(s)
  /\ UNCHANGED kept

\* The section in use is remembered.
Keep(s) ==
  /\ kept' = [kept EXCEPT ![s] = use[s]]
  /\ UNCHANGED use

\* A page is forgotten.
Forget(p) ==
  /\ kept' = [s \in Section |-> IF s \in SectionsOf(p) THEN Forgotten ELSE kept[s]]
  /\ UNCHANGED use

\* A page is recalled: remembered sections as they are, the others from the
\* factory settings.
Recall(p) ==
  /\ use' = [s \in Section |-> IF s \in SectionsOf(p) THEN use'[s] ELSE use[s]]
  /\ \A s \in SectionsOf(p) :
       IF kept[s] # Forgotten THEN use'[s] = kept[s] ELSE use'[s] \in Factory(s)
  /\ UNCHANGED kept

PowerLoss ==
  /\ use' = [s \in Section |-> Cleared]
  /\ UNCHANGED kept

Next ==
  \/ \E s \in Section : Change(s) \/ Keep(s)
  \/ \E p \in Page : Forget(p) \/ Recall(p)
  \/ PowerLoss

Spec == Init /\ [][Next]_vars
=============================================================================
