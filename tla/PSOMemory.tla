----------------------------- MODULE PSOMemory ------------------------------
(***************************************************************************)
(* What the PSO interpreter promises to the analysed program: pending      *)
(* stores reach memory in any order that keeps the order of a thread's     *)
(* stores to the same byte, and every store reaches memory in one step.    *)
(* A load returns, byte by byte, the thread's newest pending value, or     *)
(* else the value in memory; atomic accesses find no pending store.        *)
(***************************************************************************)
EXTENDS Integers, Sequences

CONSTANTS Threads, Locations, Values, Bytes

VARIABLES mem,   \* byte -> value
          buf,   \* thread -> byte -> pending stores to the byte, oldest first
          reg    \* thread -> result of its latest load, byte -> value

vars == <<mem, buf, reg>>

bytes(ml) == ml.addr..(ml.addr + ml.size - 1)

Seen(t, b) == IF buf[t][b] = << >> THEN mem[b] ELSE buf[t][b][Len(buf[t][b])].val

Init ==
  /\ mem = [b \in Bytes |-> 0]
  /\ buf = [t \in Threads |-> [b \in Bytes |-> << >>]]
  /\ reg = [t \in Threads |-> << >>]

Store(t) ==
  /\ \E ml \in Locations, v \in Values :
       buf' = [buf EXCEPT ![t] = [b \in Bytes |->
                 IF b \in bytes(ml) THEN Append(@[b], [ml |-> ml, val |-> v])
                 ELSE @[b]]]
  /\ UNCHANGED <<mem, reg>>

Load(t) ==
  /\ \E ml \in Locations :
       reg' = [reg EXCEPT ![t] = [b \in bytes(ml) |-> Seen(t, b)]]
  /\ UNCHANGED <<mem, buf>>

(* A store that is the oldest one pending for each of its bytes.           *)
Update(t) ==
  /\ \E ml \in Locations, v \in Values :
       LET s == [ml |-> ml, val |-> v] IN
       /\ \A b \in bytes(ml) : buf[t][b] # << >> /\ Head(buf[t][b]) = s
       /\ mem' = [b \in Bytes |-> IF b \in bytes(ml) THEN v ELSE mem[b]]
       /\ buf' = [buf EXCEPT ![t] = [b \in Bytes |->
                    IF b \in bytes(ml) THEN Tail(@[b]) ELSE @[b]]]
  /\ UNCHANGED reg

AtomicStore(t) ==
  /\ \A b \in Bytes : buf[t][b] = << >>
  /\ \E ml \in Locations, v \in Values :
       mem' = [b \in Bytes |-> IF b \in bytes(ml) THEN v ELSE mem[b]]
  /\ UNCHANGED <<buf, reg>>

Next == \E t \in Threads : Store(t) \/ Load(t) \/ Update(t) \/ AtomicStore(t)

Spec == Init /\ [][Next]_vars
=============================================================================
