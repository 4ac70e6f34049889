----------------------------- MODULE TSOMemory ------------------------------
(***************************************************************************)
(* What the TSO interpreter promises to the analysed program: memory that  *)
(* is written through one FIFO store buffer per thread.  A load returns,   *)
(* byte by byte, the thread's newest buffered value, or else the value in  *)
(* memory; atomic accesses find the buffer empty.                          *)
(***************************************************************************)
EXTENDS Integers, Sequences

CONSTANTS Threads, Locations, Values, Bytes

VARIABLES mem,   \* byte -> value
          buf,   \* thread -> pending stores, oldest first
          reg    \* thread -> result of its latest load, byte -> value

vars == <<mem, buf, reg>>

bytes(ml) == ml.addr..(ml.addr + ml.size - 1)

(* The value thread t sees in byte b.                                      *)
Seen(t, b) ==
  LET hits == {i \in 1..Len(buf[t]) : b \in bytes(buf[t][i].ml)} IN
  IF hits = {} THEN mem[b]
  ELSE buf[t][CHOOSE i \in hits : \A j \in hits : j <= i].val

Written(ml, v) == [b \in Bytes |-> IF b \in bytes(ml) THEN v ELSE mem[b]]

Init ==
  /\ mem = [b \in Bytes |-> 0]
  /\ buf = [t \in Threads |-> << >>]
  /\ reg = [t \in Threads |-> << >>]

Store(t) ==
  /\ \E ml \in Locations, v \in Values :
       buf' = [buf EXCEPT ![t] = Append(@, [ml |-> ml, val |-> v])]
  /\ UNCHANGED <<mem, reg>>

Load(t) ==
  /\ \E ml \in Locations :
       reg' = [reg EXCEPT ![t] = [b \in bytes(ml) |-> Seen(t, b)]]
  /\ UNCHANGED <<mem, buf>>

Update(t) ==
  /\ buf[t] # << >>
  /\ mem' = Written(Head(buf[t]).ml, Head(buf[t]).val)
  /\ buf' = [buf EXCEPT ![t] = Tail(@)]
  /\ UNCHANGED reg

AtomicStore(t) ==
  /\ buf[t] = << >>
  /\ \E ml \in Locations, v \in Values : mem' = Written(ml, v)
  /\ UNCHANGED <<buf, reg>>

Next == \E t \in Threads : Store(t) \/ Load(t) \/ Update(t) \/ AtomicStore(t)

Spec == Init /\ [][Next]_vars
=============================================================================
