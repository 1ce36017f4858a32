---------------------------- MODULE BatchStreams ----------------------------
(***************************************************************************)
(* What the produce stage promises to whoever drains it.  Every active     *)
(* producer is a stream of numbered batches.  The receiver gets the        *)
(* batches in the order they were produced, none missing and none twice;   *)
(* it sees the end of the stream only when `produce` has returned, every   *)
(* batch has been received and, if `produce` failed, its error is already  *)
(* in the log bundle.  A receiver may also be dropped before the end.      *)
(*                                                                         *)
(* ProducerPool is shown to implement this module; CliRun is built on it.  *)
(***************************************************************************)
EXTENDS Naturals, Sequences

CONSTANTS N,          \* number of active producers, in activation order
          MaxBatches  \* bound of the model: batches one producer may emit

ASSUME StreamsAssumption == N \in Nat /\ MaxBatches \in Nat

Producer == 1..N

VARIABLES
  produced,  \* produced[p]: number of batches `produce` has sent so far
  verdict,   \* verdict[p]: what `produce` returned, "pending" until it does
  errors,    \* the producers with an entry in producer_errors
  received,  \* received[p]: the batches taken from the receiver, in order
  stream     \* stream[p]: "open", "eof" (receiver loop ended) or "gone" (dropped)

streamVars == <<produced, verdict, errors, received, stream>>

Verdicts == {"pending", "ok", "err"}

StreamsInit ==
  /\ produced = [p \in Producer |-> 0]
  /\ verdict  = [p \in Producer |-> "pending"]
  /\ errors   = {}
  /\ received = [p \in Producer |-> <<>>]
  /\ stream   = [p \in Producer |-> "open"]

Emit(p) ==
  /\ verdict[p] = "pending"
  /\ produced[p] < MaxBatches
  /\ produced' = [produced EXCEPT ![p] = @ + 1]
  /\ UNCHANGED <<verdict, errors, received, stream>>

Return(p) ==
  /\ verdict[p] = "pending"
  /\ \E v \in {"ok", "err"} : verdict' = [verdict EXCEPT ![p] = v]
  /\ UNCHANGED <<produced, errors, received, stream>>

Record(p) ==
  /\ verdict[p] = "err"
  /\ stream[p] # "eof"
  /\ errors' = errors \cup {p}
  /\ UNCHANGED <<produced, verdict, received, stream>>

Deliver(p) ==
  /\ stream[p] = "open"
  /\ Len(received[p]) < produced[p]
  /\ received' = [received EXCEPT ![p] = Append(@, Len(@) + 1)]
  /\ UNCHANGED <<produced, verdict, errors, stream>>

EndOfStream(p) ==
  /\ stream[p] = "open"
  /\ Len(received[p]) = produced[p]
  /\ verdict[p] # "pending"
  /\ verdict[p] = "err" => p \in errors
  /\ stream' = [stream EXCEPT ![p] = "eof"]
  /\ UNCHANGED <<produced, verdict, errors, received>>

Drop(p) ==
  /\ stream[p] = "open"
  /\ stream' = [stream EXCEPT ![p] = "gone"]
  /\ UNCHANGED <<produced, verdict, errors, received>>

StreamsNext ==
  \E p \in Producer :
    Emit(p) \/ Return(p) \/ Record(p) \/ Deliver(p) \/ EndOfStream(p) \/ Drop(p)

StreamsSpec == StreamsInit /\ [][StreamsNext]_streamVars
=============================================================================
