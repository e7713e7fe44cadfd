----------------------------- MODULE SocketWrite -----------------------------
(***************************************************************************)
(* The writers of network::socket (network.cpp): write_queued with its     *)
(* copy of the buffer, and write_file_queued.  The kernel takes part of    *)
(* what it is given, nothing, or fails; the multiplexer wakes the writer.  *)
(* Once the call has returned, a caller that asked for a copy uses its     *)
(* buffer for something else.                                              *)
(***************************************************************************)
EXTENDS Integers, Sequences, SequenceTheorems, TLAPS

CONSTANTS
    MaxSize,        \* bound: the size of what is written
    Shortened       \* whether a file may be shorter than the size given

ASSUME SocketWriteAssumption == MaxSize \in Nat \ {0} /\ Shortened \in BOOLEAN

VARIABLES
    kind,       \* "buffer", "copied" (copy_buffer_when_async) or "file"
    payload,    \* how much is to be written
    available,  \* how much the file has
    open,       \* fd # INVALID_SOCKET
    pc,         \* "call", "loop", "wait", "end", or "refused": ended without the callback
    size, offset,
    buffer,     \* the caller's buffer: "data", or "other" when it is reused
    temp,       \* temp_buffer: "null", "caller", "copy", "freed"
    allocated,  \* copies that are not freed
    sent,       \* history: position and content of each byte the kernel took
    calls       \* the events that the callback was called with

vars == <<kind, payload, available, open, pc, size, offset, buffer, temp, allocated, sent, calls>>

Init ==
    /\ kind \in {"buffer", "copied", "file"} /\ open \in BOOLEAN
    /\ payload \in 1..MaxSize
    /\ available \in IF Shortened THEN 0..payload ELSE {payload}
    /\ pc = "call" /\ size = payload /\ offset = 0
    /\ buffer = "data" /\ temp = "null" /\ allocated = 0
    /\ sent = <<>> /\ calls = <<>>

(* Where write() reads from, and what it finds there.                      *)
Source == IF kind = "file" THEN "data" ELSE IF temp = "copy" THEN "data"
          ELSE IF temp = "freed" THEN "freed" ELSE buffer

deallocate ==
    IF temp = "copy" THEN temp' = "freed" /\ allocated' = allocated - 1
    ELSE UNCHANGED <<temp, allocated>>

(* Faulty deallocate: only a writer that succeeds gives its copy back.     *)
callback_leaks(event) ==
    /\ pc' = "end" /\ calls' = Append(calls, event)
    /\ IF event \in {"finish", "finish_sync"} THEN deallocate ELSE UNCHANGED <<temp, allocated>>

(* The copy goes, and the callback is called: the end of a write.          *)
Callback(event) ==
    /\ pc' = "end" /\ calls' = Append(calls, event)
    /\ deallocate

(* The entry of write_queued and write_file_queued.                        *)
enter ==
    /\ pc = "call"
    /\ IF open THEN pc' = "loop" /\ UNCHANGED <<temp, allocated, calls>> ELSE Callback("reset")
    /\ UNCHANGED <<kind, payload, available, open, size, offset, buffer, sent>>

(* socket::write: the kernel takes 1..size bytes from the offset on.       *)
write ==
    /\ pc = "loop" /\ kind # "file" /\ size > 0
    /\ \E k \in 1..size :
        /\ sent' = sent \o [i \in 1..k |-> <<offset + i, Source>>]
        /\ size' = size - k /\ offset' = offset + k
    /\ UNCHANGED <<kind, payload, available, open, pc, buffer, temp, allocated, calls>>

(* socket::write_file: it sends 0 bytes at the end of the file.            *)
write_file ==
    /\ pc = "loop" /\ kind = "file" /\ size > 0
    /\ \E k \in 0..size :
        /\ IF available = offset THEN k = 0 ELSE k \in 1..(available - offset)
        /\ sent' = sent \o [i \in 1..k |-> <<offset + i, Source>>]
        /\ size' = size - k /\ offset' = offset + k
    /\ UNCHANGED <<kind, payload, available, open, pc, buffer, temp, allocated, calls>>

(* Faulty would_block: the copy is forgotten, the caller's buffer is used. *)
would_block_uncopied ==
    /\ pc = "loop" /\ size > 0
    /\ pc' = "wait"
    /\ temp' = IF kind # "file" /\ temp = "null" THEN "caller" ELSE temp
    /\ UNCHANGED <<kind, payload, available, open, size, offset, buffer, allocated, sent, calls>>

(* The kernel has no room: a first wait copies the whole buffer.           *)
would_block ==
    /\ pc = "loop" /\ size > 0
    /\ pc' = "wait"
    /\ temp' = IF temp # "null" THEN temp
               ELSE IF kind = "copied" THEN "copy" ELSE "caller"
    /\ allocated' = IF kind = "copied" /\ temp = "null" THEN allocated + 1 ELSE allocated
    /\ UNCHANGED <<kind, payload, available, open, size, offset, buffer, sent, calls>>

(* The kernel fails.  When it cannot send files, write_file_queued returns *)
(* not_supported and never calls back: its caller has the error then, or   *)
(* nobody has when it is the multiplexer that called.                      *)
fail ==
    /\ pc = "loop" /\ size > 0
    /\ \/ Callback("reset")
       \/ kind = "file" /\ pc' = "refused" /\ UNCHANGED <<temp, allocated, calls>>
    /\ UNCHANGED <<kind, payload, available, open, size, offset, buffer, sent>>

finish ==
    /\ pc = "loop" /\ size = 0
    /\ Callback(IF temp # "null" THEN "finish" ELSE "finish_sync")
    /\ UNCHANGED <<kind, payload, available, open, size, offset, buffer, sent>>

(* The callback given to when_writeable.                                   *)
wake(event) ==
    /\ pc = "wait"
    /\ IF event = "finish" THEN pc' = "loop" /\ UNCHANGED <<temp, allocated, calls>>
       ELSE Callback(event)
    /\ UNCHANGED <<kind, payload, available, open, size, offset, buffer, sent>>

(* The call has returned: a caller that asked for a copy goes on.          *)
reuse ==
    /\ pc \in {"wait", "end"} /\ kind = "copied" /\ buffer = "data"
    /\ buffer' = "other"
    /\ UNCHANGED <<kind, payload, available, open, pc, size, offset, temp, allocated, sent, calls>>

Progress == enter \/ write \/ write_file \/ fail \/ finish
Wakes == \E event \in {"finish", "reset", "timeout", "cancel"} : wake(event)
Next == Progress \/ would_block \/ Wakes \/ reuse

Spec == Init /\ [][Next]_vars
(* A writer that can go on does, and a writer that waits is woken; that a  *)
(* socket is writeable means that it takes something in the end.           *)
FairSpec == Spec /\ WF_vars(Wakes) /\ SF_vars(Progress)

-----------------------------------------------------------------------------
(* The type of the state.                                                  *)
TypeOK ==
    /\ pc \in {"call", "loop", "wait", "end", "refused"} /\ size \in 0..payload
    /\ size + offset = payload
    /\ temp \in {"null", "caller", "copy", "freed"} /\ allocated \in 0..1
    /\ buffer \in {"data", "other"}

(* The peer gets the payload in order: no byte twice, none left out, and   *)
(* none from a buffer that was freed or used for something else, however   *)
(* often the writer waits.                                                 *)
SentInOrder == \A i \in DOMAIN sent : sent[i] = <<i, "data">>

(* A write ends with one call of its callback, or, when sendfile is not    *)
(* supported, with the error and without a call: never with two, and never *)
(* with both.  Success means that everything was sent, and the copy of the *)
(* buffer is freed by then.                                                *)
CalledOnce ==
    /\ Len(calls) = (IF pc = "end" THEN 1 ELSE 0)
    /\ pc = "refused" => kind = "file" /\ Len(sent) < payload
    /\ \A i \in DOMAIN calls : calls[i] \in {"finish", "finish_sync"} => Len(sent) = payload
    /\ pc \in {"end", "refused"} => allocated = 0

-----------------------------------------------------------------------------
(* write_queued and write_file_queued for a payload of any size: however   *)
(* the kernel cuts it, the peer gets it in order and from the right        *)
(* memory, and the callback is called once at most, with the copy freed.   *)

Entry == Nat \X {"data"}
Events == {"finish", "finish_sync", "reset", "timeout", "cancel"}

Types ==
    /\ kind \in {"buffer", "copied", "file"} /\ pc \in {"call", "loop", "wait", "end", "refused"}
    /\ payload \in Nat /\ size \in Nat /\ offset \in Nat /\ size + offset = payload
    /\ available \in Nat
    /\ buffer \in {"data", "other"} /\ sent \in Seq(Entry) /\ calls \in Seq(Events)

\* Where the bytes are: the copy exists from the first wait to the end, and
\* only a caller whose bytes are copied, or no longer needed, goes on.
Memory ==
    /\ temp \in IF kind = "copied" THEN {"null", "copy", "freed"} ELSE {"null", "caller"}
    /\ allocated = IF temp = "copy" THEN 1 ELSE 0
    /\ temp = "freed" => pc = "end"
    /\ temp = "copy" => pc # "end"
    /\ pc = "wait" => temp # "null"
    /\ buffer = "other" => kind = "copied" /\ (temp # "null" \/ pc = "end")

\* What the kernel took is what the offset says.
Sent == Len(sent) = offset /\ SentInOrder

\* The callback comes last, and success with the last byte; only a file is refused.
Called ==
    /\ IF pc = "end" THEN Len(calls) = 1 ELSE calls = <<>>
    /\ pc = "refused" => kind = "file" /\ size > 0
    /\ \A i \in 1..Len(calls) : calls[i] \in {"finish", "finish_sync"} => size = 0

Inv == Types /\ Memory /\ Sent /\ Called

(* A write that has not been called is in the invariant.                   *)
LEMMA InvInit == Init => Inv
<1> SUFFICES ASSUME Init PROVE Inv
  OBVIOUS
<1>1. Types
  BY SocketWriteAssumption DEF Init, Types
<1>2. Memory /\ Sent /\ Called
  BY DEF Init, Memory, Sent, SentInOrder, Called
<1> QED BY <1>1, <1>2 DEF Inv

(* While a write goes on it reads what the caller gave it.                 *)
LEMMA Reads == ASSUME Inv, pc = "loop" PROVE Source = "data"
BY DEF Inv, Types, Memory, Source

(* The kernel takes k bytes: they follow those it took before.             *)
LEMMA Takes ==
    ASSUME Inv, NEW k \in Nat, k <= size,
           sent' = sent \o [i \in 1..k |-> <<offset + i, "data">>], offset' = offset + k
    PROVE  sent' \in Seq(Entry) /\ Sent'
<1> DEFINE new == [i \in 1..k |-> <<offset + i, "data">>]
<1>1. new \in Seq(Entry) /\ Len(new) = k /\ \A i \in 1..k : new[i] = <<offset + i, "data">>
  BY DEF Inv, Types, Entry
<1>2. sent \in Seq(Entry) /\ offset \in Nat /\ Len(sent) = offset /\ \A i \in 1..offset : sent[i] = <<i, "data">>
  BY DEF Inv, Types, Sent, SentInOrder
<1> HIDE DEF new
<1>3. /\ sent \o new \in Seq(Entry) /\ Len(sent \o new) = offset + k
      /\ \A i \in 1..(offset + k) : (sent \o new)[i] = IF i <= offset THEN sent[i] ELSE new[i - offset]
  BY Zenon, <1>1, <1>2, ConcatProperties
<1>4. \A i \in 1..(offset + k) : (sent \o new)[i] = <<i, "data">>
  BY <1>1, <1>2, <1>3
<1>5. sent' = sent \o new
  BY DEF new
<1>6. DOMAIN (sent \o new) = 1..(offset + k)
  BY <1>2, <1>3
<1>7. sent' \in Seq(Entry) /\ Len(sent') = offset'
  BY Zenon, <1>3, <1>5
<1>8. SentInOrder'
  BY SMTT(20), <1>4, <1>5, <1>6 DEF SentInOrder
<1> QED BY <1>7, <1>8 DEF Sent

(* write and write_file.                                                   *)
LEMMA WriteKeeps == ASSUME Inv, write \/ write_file PROVE Inv'
<1>1. /\ pc = "loop" /\ UNCHANGED <<kind, payload, available, open, pc, buffer, temp, allocated, calls>>
      /\ \E k \in 0..size : /\ sent' = sent \o [i \in 1..k |-> <<offset + i, Source>>]
                            /\ size' = size - k /\ offset' = offset + k
  <2>1. CASE write
    BY <2>1 DEF write, Inv, Types
  <2>2. CASE write_file
    BY <2>2 DEF write_file
  <2> QED BY Zenon, <2>1, <2>2
<1> PICK k \in 0..size : /\ sent' = sent \o [i \in 1..k |-> <<offset + i, Source>>]
                         /\ size' = size - k /\ offset' = offset + k
  BY <1>1
<1>2. k \in Nat /\ k <= size
  BY DEF Inv, Types
<1>3. sent' \in Seq(Entry) /\ Sent'
  BY Zenon, <1>1, <1>2, Reads, Takes
<1>4. Types'
  <2>1. size' \in Nat /\ offset' \in Nat /\ size' + offset' = payload'
    BY <1>1, <1>2 DEF Inv, Types
  <2> QED BY Zenon, <1>1, <1>3, <2>1 DEF Inv, Types
<1>5. Memory' /\ Called'
  BY <1>1 DEF Inv, Memory, Called
<1> QED BY <1>3, <1>4, <1>5 DEF Inv

(* A write that ends: the callback is the first, and the copy goes.        *)
LEMMA CallbackKeeps ==
    ASSUME Inv, pc # "end", NEW event \in Events, Callback(event),
           event \in {"finish", "finish_sync"} => size = 0,
           UNCHANGED <<kind, payload, available, open, size, offset, buffer, sent>>
    PROVE  Inv'
<1>1. calls = <<>> /\ calls' = <<event>> /\ pc' = "end"
  BY DEF Inv, Called, Callback
<1>2. Types' /\ Sent'
  BY <1>1 DEF Inv, Types, Sent, SentInOrder
<1>3. Memory'
  BY <1>1 DEF Inv, Types, Memory, Callback, deallocate
<1>4. Called'
  BY <1>1 DEF Called
<1> QED BY <1>2, <1>3, <1>4 DEF Inv

(* Every step of a write keeps the invariant.                              *)
LEMMA InvNext == Inv /\ [Next]_vars => Inv'
<1> SUFFICES ASSUME Inv, [Next]_vars PROVE Inv'
  OBVIOUS
<1>1. CASE enter
  <2>1. CASE open
    BY <1>1, <2>1 DEF enter, Inv, Types, Memory, Sent, SentInOrder, Called
  <2>2. CASE ~open
    BY <1>1, <2>2, CallbackKeeps DEF enter, Events
  <2> QED BY <2>1, <2>2
<1>2. CASE write \/ write_file
  BY <1>2, WriteKeeps
<1>3. CASE fail
  <2>1. CASE Callback("reset")
    BY <1>3, <2>1, CallbackKeeps DEF fail, Events
  <2>2. CASE kind = "file" /\ pc' = "refused" /\ UNCHANGED <<temp, allocated, calls>>
    BY <1>3, <2>2 DEF fail, Inv, Types, Memory, Sent, SentInOrder, Called
  <2> QED BY <1>3, <2>1, <2>2 DEF fail
<1>4. CASE finish
  BY <1>4, CallbackKeeps DEF finish, Events
<1>5. CASE would_block
  BY <1>5 DEF would_block, Inv, Types, Memory, Sent, SentInOrder, Called
<1>6. CASE Wakes
  <2> PICK event \in {"finish", "reset", "timeout", "cancel"} : wake(event)
    BY <1>6 DEF Wakes
  <2>1. CASE event = "finish"
    BY <2>1 DEF wake, Inv, Types, Memory, Sent, SentInOrder, Called
  <2>2. CASE event # "finish"
    BY <2>2, CallbackKeeps DEF wake, Events
  <2> QED BY <2>1, <2>2
<1>7. CASE reuse
  BY <1>7 DEF reuse, Inv, Types, Memory, Sent, SentInOrder, Called
<1>8. CASE UNCHANGED vars
  BY <1>8 DEF vars, Inv, Types, Memory, Sent, SentInOrder, Called
<1> QED BY <1>1, <1>2, <1>3, <1>4, <1>5, <1>6, <1>7, <1>8 DEF Next, Progress

(* The peer gets each byte once, in order and unspoiled, for a payload and *)
(* a file of any size.                                                     *)
THEOREM PayloadInOrder == Spec => []SentInOrder
<1>1. Inv => SentInOrder
  BY DEF Inv, Sent
<1> QED BY <1>1, InvInit, InvNext, PTL DEF Spec

(* A write ends with one call of its callback, or without any when files   *)
(* cannot be sent; success means that all was sent, and no copy of the     *)
(* buffer outlives the write.                                              *)
THEOREM CallbackOnce == Spec => []CalledOnce
<1>1. Inv => CalledOnce
  <2> SUFFICES ASSUME Inv PROVE CalledOnce
    OBVIOUS
  <2>1. Len(calls) = (IF pc = "end" THEN 1 ELSE 0)
    BY DEF Inv, Called
  <2>2. \A i \in DOMAIN calls : calls[i] \in {"finish", "finish_sync"} => Len(sent) = payload
    BY DEF Inv, Types, Called, Sent
  <2>3. pc \in {"end", "refused"} => allocated = 0
    BY DEF Inv, Types, Memory, Called
  <2>4. pc = "refused" => kind = "file" /\ Len(sent) < payload
    BY DEF Inv, Types, Called, Sent
  <2> QED BY <2>1, <2>2, <2>3, <2>4 DEF CalledOnce
<1> QED BY <1>1, InvInit, InvNext, PTL DEF Spec
=============================================================================
