---------------------------- MODULE AtomicDocument ----------------------------
(***************************************************************************)
(* What updateRuntimeDatabase promises its callers, the plan store first   *)
(* among them: the document takes in updates, never gives one up, and an   *)
(* update that was acknowledged is in it.  An update that failed may still *)
(* be taken in: its caller learns that it is not acknowledged, no more.    *)
(***************************************************************************)
CONSTANT Updates

VARIABLES
  document,   \* the updates the stored document contains
  started,    \* those asked for
  acked       \* those acknowledged

Init == document = {} /\ started = {} /\ acked = {}

Start(u) ==
  /\ started' = started \cup {u}
  /\ UNCHANGED <<document, acked>>

(* One write may bring in, with its own, updates that failed before.       *)
Store(S) ==
  /\ S \subseteq started
  /\ document' = document \cup S
  /\ UNCHANGED <<started, acked>>

Acknowledge(u) ==
  /\ u \in document
  /\ acked' = acked \cup {u}
  /\ UNCHANGED <<document, started>>

Next ==
  \/ \E u \in Updates : Start(u) \/ Acknowledge(u)
  \/ \E S \in SUBSET Updates : Store(S)

Spec == Init /\ [][Next]_<<document, started, acked>>
===============================================================================
