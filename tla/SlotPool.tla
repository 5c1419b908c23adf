------------------------------ MODULE SlotPool ------------------------------
(***************************************************************************)
(* What a KV slot allocator promises its callers, whatever it does inside  *)
(* (free lists, batching windows, sorting, steering): every slot id of the *)
(* pool is at any moment either idle or handed out, never both and never   *)
(* lost, and it changes sides only when a caller asks for it.              *)
(* TokenAllocator implements this specification.                           *)
(***************************************************************************)
EXTENDS Naturals

CONSTANT InitSize   \* slots of the pool at boot

VARIABLES size,     \* the ids of the pool are 1..size; id 0 is the padding slot
          idle,     \* ids the allocator owns
          held      \* ids some caller owns

vars == <<size, idle, held>>

Init == /\ size = InitSize
        /\ idle = 1..InitSize
        /\ held = {}

Take == \E S \in SUBSET idle : /\ idle' = idle \ S
                               /\ held' = held \cup S
                               /\ UNCHANGED size

GiveBack == \E S \in SUBSET held : /\ idle' = idle \cup S
                                   /\ held' = held \ S
                                   /\ UNCHANGED size

Grow == /\ size' \in Nat
        /\ size' > size
        /\ idle' = idle \cup (size + 1)..size'
        /\ UNCHANGED held

Reset == /\ size' \in Nat
         /\ idle' = 1..size'
         /\ held' = {}

Next == Take \/ GiveBack \/ Grow \/ Reset

Spec == Init /\ [][Next]_vars
=============================================================================
