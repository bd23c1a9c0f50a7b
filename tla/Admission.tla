----------------------------- MODULE Admission ------------------------------
(***************************************************************************)
(* The limit on response bytes in transfer (server.fizzbuzz, server.go).   *)
(* A handler adds its size to an atomic counter before it knows if there   *)
(* is room, and takes it back if not. An admitted handler keeps its bytes  *)
(* reserved until it returns; the deadline of each write ends a client     *)
(* that does not read.                                                     *)
(*                                                                         *)
(* A definition marked "mutant" is a plausible bug in the definition below *)
(* it. No specification uses it: it shows that a property can fail.        *)
(***************************************************************************)
EXTENDS Integers, FiniteSetsExt

CONSTANTS
    Handlers,          \* the handlers that can run at the same time
    Sizes,             \* JSONSize of the requests
    ChunkBytes,        \* what one write sends
    MaxInflightBytes,  \* MAX_INFLIGHT_BYTES
    MaxResponseBytes   \* MAX_RESPONSE_BYTES

\* The bound of Validate, and a check of loadConfig.
ASSUME AdmissionAssumption ==
    /\ IsFiniteSet(Handlers)
    /\ Sizes \subseteq 1..MaxResponseBytes
    /\ MaxInflightBytes \in Nat /\ MaxResponseBytes \in Nat
    /\ MaxInflightBytes >= MaxResponseBytes
    /\ ChunkBytes \in Nat \ {0}

VARIABLES
    inflight,  \* server.inflight
    at,        \* "idle", "refused", "admitted" or "failed", per handler
    size,      \* the size of the response, 0 when idle
    left,      \* the bytes that the handler has not written yet
    reads      \* the client reads

vars == <<inflight, at, size, left, reads>>

Init ==
    /\ inflight = 0
    /\ at = [h \in Handlers |-> "idle"]
    /\ size = [h \in Handlers |-> 0]
    /\ left = [h \in Handlers |-> 0]
    /\ reads = [h \in Handlers |-> TRUE]

TooMuch(sum) == sum > MaxInflightBytes

(***************************************************************************)
(* inflight.Add tells the handler its fate.                                *)
(***************************************************************************)
CheckThenAdd(h, s) ==  \* mutant
    /\ at[h] = "idle"
    /\ inflight' = inflight + s
    /\ at' = [at EXCEPT ![h] = IF TooMuch(inflight) THEN "refused" ELSE "admitted"]
    /\ size' = [size EXCEPT ![h] = s]
    /\ left' = [left EXCEPT ![h] = s]
    /\ UNCHANGED reads

Reserve(h, s) ==
    /\ at[h] = "idle"
    /\ inflight' = inflight + s
    /\ at' = [at EXCEPT ![h] = IF TooMuch(inflight + s) THEN "refused" ELSE "admitted"]
    /\ size' = [size EXCEPT ![h] = s]
    /\ left' = [left EXCEPT ![h] = s]
    /\ UNCHANGED reads

(***************************************************************************)
(* inflight.Add(-size), and the handler returns.                           *)
(***************************************************************************)
ReleaseUnwritten(h) == inflight' = inflight - left[h]  \* mutant

Release(h) == inflight' = inflight - size[h]

Return(h) ==
    /\ at' = [at EXCEPT ![h] = "idle"]
    /\ size' = [size EXCEPT ![h] = 0]
    /\ left' = [left EXCEPT ![h] = 0]
    /\ reads' = [reads EXCEPT ![h] = TRUE]

RefuseAndKeep(h) ==  \* mutant
    /\ at[h] = "refused"
    /\ UNCHANGED inflight
    /\ Return(h)

Refuse(h) ==
    /\ at[h] = "refused"
    /\ Release(h)
    /\ Return(h)

Finish(h) ==
    /\ at[h] = "failed" \/ (at[h] = "admitted" /\ left[h] = 0)
    /\ Release(h)
    /\ Return(h)

(***************************************************************************)
(* WriteJSON writes through deadlineWriter: a write ends when the client   *)
(* reads, or fails at its deadline, or fails because the client left.      *)
(***************************************************************************)
LastChunkFull(x) == x - ChunkBytes  \* mutant

AfterChunk(x) == Max({0, x - ChunkBytes})

WriteChunk(h) ==
    /\ at[h] = "admitted"
    /\ left[h] > 0
    /\ reads[h]
    /\ left' = [left EXCEPT ![h] = AfterChunk(@)]
    /\ UNCHANGED <<inflight, at, size, reads>>

NoDeadline(h) ==  \* mutant
    /\ at[h] = "admitted"
    /\ left[h] > 0
    /\ reads[h]
    /\ at' = [at EXCEPT ![h] = "failed"]
    /\ UNCHANGED <<inflight, size, left, reads>>

WriteFails(h) ==
    /\ at[h] = "admitted"
    /\ left[h] > 0
    /\ at' = [at EXCEPT ![h] = "failed"]
    /\ UNCHANGED <<inflight, size, left, reads>>

\* The client stops to read, or reads again.
Client(h) ==
    /\ at[h] = "admitted"
    /\ reads' = [reads EXCEPT ![h] = ~@]
    /\ UNCHANGED <<inflight, at, size, left>>

Next ==
    \E h \in Handlers :
        \/ \E s \in Sizes : Reserve(h, s)
        \/ Refuse(h)
        \/ WriteChunk(h)
        \/ WriteFails(h)
        \/ Finish(h)
        \/ Client(h)

Spec == Init /\ [][Next]_vars

-----------------------------------------------------------------------------
(***************************************************************************)
(* The types of the variables of Admission.                                *)
(***************************************************************************)
TypeOK ==
    /\ inflight \in Nat
    /\ at \in [Handlers -> {"idle", "refused", "admitted", "failed"}]
    /\ size \in [Handlers -> Sizes \cup {0}]
    /\ left \in [Handlers -> Nat]
    /\ \A h \in Handlers : left[h] <= size[h]
    /\ reads \in [Handlers -> BOOLEAN]

Reserved(hs) == MapThenSumSet(LAMBDA h : size[h], hs)

Transfers == {h \in Handlers : at[h] \in {"admitted", "failed"}}

(***************************************************************************)
(* The counter is the sum of what the running handlers reserved, on every  *)
(* path of the handler: refused, complete, failed (server.go:64-70). A     *)
(* byte that leaks refuses good requests for ever.                         *)
(***************************************************************************)
ReservationsAddUp == inflight = Reserved(Handlers)

(***************************************************************************)
(* "Response bytes in transfer at the same time before 503" (README.md:87):*)
(* handlers that reserve at the same time never exceed the limit together. *)
(***************************************************************************)
TransfersFit == Reserved(Transfers) <= MaxInflightBytes

Refuses(h) == at[h] = "idle" /\ at'[h] = "refused"

(***************************************************************************)
(* MAX_INFLIGHT_BYTES lets the largest response run (config.go:88): a      *)
(* request is never refused when no other request holds a reservation.     *)
(***************************************************************************)
LargestCanRun ==
    [][\A h \in Handlers :
          Refuses(h) => \E g \in Handlers \ {h} : at[g] # "idle"]_vars

(***************************************************************************)
(* Each reservation ends, also when the client stops reading: the deadline *)
(* of deadlineWriter (server.go:217).                                      *)
(***************************************************************************)
ReservationsEnd == \A h \in Handlers : at[h] # "idle" ~> at[h] = "idle"

=============================================================================
