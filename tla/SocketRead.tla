----------------------------- MODULE SocketRead -----------------------------
(***************************************************************************)
(* The readers of network::socket (network.cpp): read_queued, read_until,  *)
(* read_until_queued, read_until_chunked and read_until_chunked_queued,    *)
(* with the callbacks of the deferred versions, against a peer that sends  *)
(* a stream in pieces of any size or goes away, and the multiplexer, which *)
(* wakes a reader that would block, times it out or cancels it.            *)
(***************************************************************************)
EXTENDS Integers, Sequences, SequencesExt

CONSTANTS
    Modes,          \* the readers that are exercised
    Bytes, MaxStream,
    Matches,        \* what is searched for
    BufferSize,     \* MAX_READ_UNTIL and BLOB_SIZE
    Limits          \* sizes to read, or max_size of the deferred versions

Queued == {"read_queued", "read_until_queued", "read_until_chunked_queued"}
Chunked == {"read_until_chunked", "read_until_chunked_queued"}
Until == {"read_until", "read_until_queued"}

SocketReadAssumption ==
    /\ Modes \subseteq Queued \cup Chunked \cup Until
    /\ MaxStream \in Nat /\ BufferSize \in Nat \ {0} /\ Limits \subseteq Nat \ {0}
    /\ Matches \subseteq Seq(Bytes) \ {<<>>}

(* Buffers hold positions of the stream: which byte of it, not its value.  *)
VARIABLES
    mode, stream, match,
    valid,      \* fd # INVALID_SOCKET
    arrived,    \* how much of the stream the kernel has
    peer,       \* "open" or "gone"
    taken,      \* how much of it read() has returned
    pc,         \* "call", "loop", "scan", "wait", "end"
    cache,      \* the local buffer, from the last notification on
    chunk,      \* what of the last read() is not looked at yet
    length,     \* the length of the last read()
    index,      \* how much of match was seen
    again,      \* temp_buffer: the reader has waited
    left,       \* what is left of the limit
    merge,      \* what the callback was given with `next`
    rest,       \* what it was given with the end of the search
    result      \* the last event it was called with, or "none"

input == <<mode, stream, match, valid>>
vars == <<input, arrived, peer, taken, pc, cache, chunk, length, index, again,
          left, merge, rest, result>>

Prefix(s, n) == SubSeq(s, 1, n)

Init ==
    /\ mode \in Modes /\ match \in Matches /\ valid \in BOOLEAN
    /\ stream \in BoundedSeq(Bytes, MaxStream)
    /\ arrived = 0 /\ peer = "open" /\ taken = 0
    /\ pc = "call" /\ cache = <<>> /\ chunk = <<>> /\ length = 0
    /\ index = 0 /\ again = FALSE
    /\ left \in Limits /\ merge = <<>> /\ rest = <<>> /\ result = "none"

-----------------------------------------------------------------------------
(* The callback with an event that ends the read.                          *)
Ended(event) == pc' = "end" /\ result' = event
Finish == IF again THEN "finish" ELSE "finish_sync"

(* notify_incoming with the bytes b, and the callback of the deferred      *)
(* versions: it keeps no more than max_size bytes.                         *)
Keeps(b) == IF Len(b) < left THEN Len(b) ELSE left
GoesOn(b) == b = <<>> \/ left > Keeps(b)
notify_incoming(b) ==
    /\ merge' = merge \o Prefix(b, Keeps(b))
    /\ left' = left - Keeps(b)

(* The entry of each function: a socket that is not open is an error.      *)
enter ==
    /\ pc = "call"
    /\ IF valid THEN pc' = "loop" /\ UNCHANGED result ELSE Ended("reset")
    /\ UNCHANGED <<input, arrived, peer, taken, cache, chunk, length, index, again,
                   left, merge, rest>>

(* socket::read: at most n of the bytes that have arrived.                 *)
read(n) ==
    \E k \in 1..n :
        /\ k <= arrived - taken
        /\ taken' = taken + k
        /\ length' = k
        /\ chunk' = [i \in 1..k |-> taken + i]

(* The loop of read_queued; the callback of read_deferred keeps it all.    *)
read_queued ==
    /\ mode = "read_queued" /\ pc = "loop" /\ left > 0
    /\ read(IF left > BufferSize THEN BufferSize ELSE left)
    /\ merge' = merge \o chunk'
    /\ left' = left - length'
    /\ UNCHANGED <<input, arrived, peer, pc, cache, index, again, rest, result>>

read_queued_done ==
    /\ mode = "read_queued" /\ pc = "loop" /\ left = 0
    /\ Ended(Finish)
    /\ UNCHANGED <<input, arrived, peer, taken, cache, chunk, length, index, again,
                   left, merge, rest>>

(* The others read one byte, or as much as the buffer holds.               *)
read_until ==
    /\ mode \in Until \cup Chunked /\ pc = "loop"
    /\ read(IF mode \in Until THEN 1 ELSE BufferSize - Len(cache))
    /\ pc' = "scan"
    /\ UNCHANGED <<input, arrived, peer, cache, index, again, left, merge, rest, result>>

(* How much of match is seen after the byte at i.                          *)
Seen(i) == IF stream[i] = match[index + 1] THEN index + 1 ELSE 0

(* A full buffer, the end of a chunk or of the search: the callback gets   *)
(* the buffer.                                                             *)
Flushes(b, seen) ==
    \/ Len(b) >= (IF mode \in Until THEN BufferSize ELSE length)
    \/ seen = Len(match)

(* One byte of the inner loop.  The end of the search comes with the rest  *)
(* of the chunk, in read_until_chunked_queued only.                        *)
scan ==
    /\ pc = "scan"
    /\ LET b == Append(cache, Head(chunk))
           seen == Seen(Head(chunk))
           flush == Flushes(b, seen)
       IN  /\ chunk' = Tail(chunk)
           /\ index' = seen
           /\ cache' = IF flush THEN <<>> ELSE b
           /\ IF flush THEN notify_incoming(b) ELSE UNCHANGED <<merge, left>>
           /\ \/ /\ flush /\ ~GoesOn(b)
                 /\ pc' = "end" /\ UNCHANGED <<rest, result>>
              \/ /\ (flush => GoesOn(b)) /\ seen = Len(match)
                 /\ Ended(IF mode \in Queued THEN Finish ELSE "finish_sync")
                 /\ rest' = IF mode \in Queued THEN chunk' ELSE <<>>
              \/ /\ (flush => GoesOn(b)) /\ seen < Len(match)
                 /\ pc' = IF chunk' = <<>> THEN "loop" ELSE "scan"
                 /\ UNCHANGED <<rest, result>>
    /\ UNCHANGED <<input, arrived, peer, taken, length, again>>

(* Faulty fail: what is in the buffer is not given out.                    *)
fail_drops == Ended("reset") /\ cache' = <<>> /\ UNCHANGED <<merge, left>>

(* An error of read(): what is in the buffer, then `reset`.                *)
fail ==
    /\ IF mode = "read_queued" THEN UNCHANGED <<merge, left>> ELSE notify_incoming(cache)
    /\ cache' = <<>>
    /\ IF mode = "read_queued" \/ GoesOn(cache) THEN Ended("reset")
       ELSE pc' = "end" /\ UNCHANGED result

(* Nothing has arrived: the queued readers wait, the others fail, and all  *)
(* fail when the peer is gone.  The buffer is local to the call: what is   *)
(* in it when read_until_queued waits is gone.                             *)
would_block ==
    /\ pc = "loop" /\ taken = arrived /\ (mode = "read_queued" => left > 0)
    /\ \/ /\ peer = "open" /\ mode \in Queued
          /\ pc' = "wait" /\ cache' = <<>>
          /\ UNCHANGED <<left, merge, result>>
       \/ /\ peer = "gone" \/ mode \notin Queued
          /\ fail
    /\ UNCHANGED <<input, arrived, peer, taken, chunk, length, index, again, rest>>

(* The callback given to when_readable.                                    *)
wake(event) ==
    /\ pc = "wait"
    /\ \/ /\ event = "finish" /\ (arrived > taken \/ peer = "gone")
          /\ pc' = "loop" /\ UNCHANGED result
       \/ event # "finish" /\ Ended(event)
    /\ again' = TRUE
    /\ UNCHANGED <<input, arrived, peer, taken, cache, chunk, length, index, left, merge, rest>>

(* The peer sends, or goes away after what it has sent.                    *)
deliver ==
    /\ peer = "open" /\ pc # "end"
    /\ \/ arrived < Len(stream) /\ arrived' = arrived + 1 /\ UNCHANGED peer
       \/ peer' = "gone" /\ UNCHANGED arrived
    /\ UNCHANGED <<input, taken, pc, cache, chunk, length, index, again, left, merge, rest, result>>

Run == enter \/ read_queued \/ read_queued_done \/ read_until \/ scan \/ would_block
Wakes == \E event \in {"finish", "reset", "timeout", "cancel"} : wake(event)
Next == Run \/ Wakes \/ deliver

Spec == Init /\ [][Next]_vars

(* The code runs on, and the multiplexer answers whoever waits, with a     *)
(* timeout if with nothing else; the peer sends or goes away.              *)
FairSpec == Spec /\ WF_vars(Run) /\ WF_vars(Wakes) /\ WF_vars(deliver)

-----------------------------------------------------------------------------
(* The type of the state.                                                  *)
TypeOK ==
    /\ pc \in {"call", "loop", "scan", "wait", "end"}
    /\ 0 <= taken /\ taken <= arrived /\ arrived <= Len(stream)
    /\ index \in 0..Len(match) /\ (pc # "end" => index < Len(match))
    /\ left \in Nat /\ Len(cache) < BufferSize /\ (pc = "scan" => chunk # <<>>)
    /\ result \in {"none", "finish", "finish_sync", "reset", "timeout", "cancel"}

(* The callback sees the bytes of the stream in their order, each of them  *)
(* once: what it has, what is in the buffer and what is not looked at yet  *)
(* make up what was received, as long as its limit is not reached.  Only   *)
(* read_until_queued leaves bytes out, and only when it has waited: those  *)
(* before the wait that it had not given out yet.                          *)
Waited == mode = "read_until_queued" /\ (again \/ pc = "wait")
NothingLost ==
    LET seen == IF mode = "read_queued" THEN merge
                ELSE merge \o cache \o (IF pc = "end" THEN rest ELSE chunk)
    IN  /\ \A i \in 1..(Len(seen) - 1) : seen[i] < seen[i + 1]
        /\ (~Waited /\ (mode # "read_queued" => left > 0 /\ ~(mode = "read_until_chunked" /\ pc = "end")))
              => seen = [i \in 1..taken |-> i]
        /\ ~Waited => merge = [i \in 1..Len(merge) |-> i]

(* A search that reports success has stopped at an occurrence, and passed  *)
(* none but such as begin in the middle of a partial match: the byte that  *)
(* ends a partial match is not looked at again.  Waiting does not make it  *)
(* pass one, though the match may be given out without its first bytes.    *)
StopsAtFirst ==
    (result \in {"finish", "finish_sync"} /\ mode # "read_queued") =>
        LET n == Last(merge)
            m == Len(match)
            Ends(i) == i >= m /\ SubSeq(stream, i - m + 1, i) = match
            PartlySeen(i) == \E k \in 1..(m - 1) :
                                i >= k /\ SubSeq(stream, i - k + 1, i) = Prefix(match, k)
        IN  Ends(n) /\ \A i \in 1..(n - 1) : Ends(i) => PartlySeen(i - m)

(* read_queued finishes with exactly the bytes asked for, and `finish` is  *)
(* for a reader that has waited.                                           *)
FinishesWhole ==
    /\ (result \in {"finish", "finish_sync"} /\ mode = "read_queued") =>
           left = 0 /\ Len(merge) = taken /\ Len(merge) \in Limits
    /\ result = "finish" => again

(* The promise of a deferred read is settled, if its limit is not reached. *)
Settled == result # "none" \/ (mode # "read_queued" /\ left = 0)
=============================================================================
