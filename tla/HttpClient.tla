----------------------------- MODULE HttpClient -----------------------------
(***************************************************************************)
(* http::fetch and http::client::send: one request with its client, from   *)
(* the connection to the answer.  The head is written from a buffer of     *)
(* hrm_cache; then a body, or the parts of a form, some of them files that *)
(* are opened and written chunk by chunk; then the response is read.       *)
(* Every write and read may fail.  A task is a continuation that waits for *)
(* the socket; there is one, except where upload_file calls its callback   *)
(* twice.                                                                  *)
(***************************************************************************)
EXTENDS Integers, Sequences, SequencesExt, FiniteSets

CONSTANTS
    Requests,   \* the forms that are sent: sequences of "memory", "file"; "plain", "body"
    Blocking,   \* TRUE: the client's socket blocks (config.is_non_blocking is off)
    Sendfile,   \* TRUE: the socket can send files itself (no TLS)
    MaxChunks   \* the size of a file in blobs

ClientAssumption == /\ {Blocking, Sendfile} \subseteq BOOLEAN /\ MaxChunks \in Nat

VARIABLES
    life,       \* the client of http::fetch
    request,    \* what is sent: a sequence of parts
    tasks,      \* [at, part, left]
    wire,       \* what was written, in order
    stream,     \* the socket of the client
    buffers,    \* taken from hrm_cache
    files,      \* open files
    sizes,      \* the length of the file of every part, as announced
    resolver,   \* state.resolver is set
    answers,    \* how often the promise of send was answered
    status      \* its last answer

vars == <<life, request, tasks, wire, stream, buffers, files, sizes, resolver, answers, status>>
rest == <<life, request, sizes>>

Task(at, part, left) == [at |-> at, part |-> part, left |-> left]
IsForm(r) == r # <<>> /\ r[1] \in {"memory", "file"}
Others(k) == RemoveAt(tasks, k)

Init ==
    /\ life = "none" /\ request = <<>> /\ tasks = <<>> /\ wire = <<>> /\ stream = "none"
    /\ buffers = 0 /\ files = 0 /\ sizes = <<>> /\ resolver = FALSE /\ answers = 0 /\ status = "none"

(* socket_client::report: an error closes the stream first.                *)
report(result) ==
    /\ stream' = IF result = "error" THEN "closed" ELSE stream
    /\ status' = IF resolver THEN result ELSE status
    /\ answers' = IF resolver THEN answers + 1 ELSE answers
    /\ resolver' = FALSE

(* http::fetch: the name is resolved, then a client is made and connected. *)
connect_async ==
    /\ life = "none"
    /\ \/ life' = "failed" /\ UNCHANGED stream
       \/ life' = "connected" /\ stream' = "open"
       \/ life' = "finished" /\ UNCHANGED stream
    /\ status' = IF life' = "finished" THEN "error" ELSE status
    /\ UNCHANGED <<request, tasks, wire, buffers, files, sizes, resolver, answers>>

(* client::send up to the write of the head.  The random boundary of a     *)
(* form may fail.  The files are measured for Content-Length.              *)
send ==
    /\ life = "connected" /\ resolver' = TRUE
    /\ request' \in Requests
    /\ sizes' \in [1..Len(request') -> 0..MaxChunks]
    /\ life' = "sent" /\ buffers' = 1
    /\ tasks' = <<Task("head", 0, 0)>>
    /\ UNCHANGED <<wire, stream, files, answers, status>>

send_unbounded ==
    /\ life = "connected"
    /\ request' \in {r \in Requests : IsForm(r)} /\ sizes' = <<>>
    /\ life' = "sent" /\ stream' = "closed" /\ status' = "error" /\ answers' = answers + 1
    /\ UNCHANGED <<tasks, wire, buffers, files, resolver>>

Fails(k, at) == /\ tasks[k].at = at /\ tasks' = Others(k) /\ report("error")

(* The write of the head has ended, one way or the other.                  *)
head_written(k) ==
    /\ tasks[k].at = "head" /\ buffers' = buffers - 1
    /\ \/ /\ stream = "open" /\ wire' = Append(wire, <<"head", 0>>)
          /\ tasks' = Append(Others(k), IF IsForm(request) THEN Task("data", 1, 0)
                                        ELSE IF request = <<"body">> THEN Task("body", 1, 0)
                                        ELSE Task("read", 0, 0))
          /\ UNCHANGED <<stream, resolver, answers, status>>
       \/ Fails(k, "head") /\ UNCHANGED wire
    /\ UNCHANGED <<rest, files>>

body_written(k) ==
    /\ tasks[k].at = "body"
    /\ \/ /\ stream = "open" /\ wire' = Append(wire, <<"body", 1>>)
          /\ tasks' = Append(Others(k), Task("read", 0, 0))
          /\ UNCHANGED <<stream, resolver, answers, status>>
       \/ Fails(k, "body") /\ UNCHANGED wire
    /\ UNCHANGED <<rest, buffers, files>>

(* client::upload: the next part, or the response.                         *)
upload(part) == IF part <= Len(request) THEN Task("data", part, 0) ELSE Task("read", 0, 0)

(* A part in memory is written with its boundaries, a file between them.   *)
data_written(k) ==
    LET part == tasks[k].part IN
    /\ tasks[k].at = "data"
    /\ \/ /\ stream = "open" /\ wire' = Append(wire, <<"data", part>>)
          /\ tasks' = Append(Others(k), IF request[part] = "memory" THEN upload(part + 1)
                                        ELSE Task("open", part, sizes[part]))
          /\ UNCHANGED <<stream, resolver, answers, status>>
       \/ Fails(k, "data") /\ UNCHANGED wire
    /\ UNCHANGED <<rest, buffers, files>>

(* upload_file opens the file.  Where the socket sends files itself, the   *)
(* callback is called by upload_file and again when the file was sent.     *)
upload_file(k) ==
    LET t == tasks[k] IN
    /\ t.at = "open"
    /\ \/ Fails(k, "open") /\ UNCHANGED files
       \/ /\ files' = files + 1
          /\ tasks' = Others(k) \o
                (IF Sendfile THEN <<Task("sendfile", t.part, t.left), Task("finish", t.part, 0)>>
                 ELSE <<Task("file", t.part, t.left)>>)
          /\ UNCHANGED <<stream, resolver, answers, status>>
    /\ UNCHANGED <<rest, wire, buffers>>

(* write_file_queued closes the file and calls the callback.               *)
sendfile_done(k) ==
    LET t == tasks[k] IN
    /\ t.at = "sendfile" /\ files' = files - 1
    /\ \/ /\ stream = "open" /\ wire' = Append(wire, <<"file", t.part>>)
          /\ tasks' = Append(Others(k), Task("finish", t.part, 0))
          /\ UNCHANGED <<stream, resolver, answers, status>>
       \/ Fails(k, "sendfile") /\ UNCHANGED wire
    /\ UNCHANGED <<rest, buffers>>

(* Faulty chunk: an error of the read leaves the file open.                *)
upload_file_chunk_open(k) ==
    LET t == tasks[k] IN
    /\ t.at = "file" /\ t.left > 0
    /\ \/ /\ stream = "open"
          /\ wire' = Append(wire, <<"file", t.part>>)
          /\ tasks' = IF Blocking /\ t.left = 1 THEN Others(k)
                      ELSE Append(Others(k), [t EXCEPT !.left = @ - 1])
          /\ UNCHANGED <<files, stream, resolver, answers, status>>
       \/ Fails(k, "file") /\ UNCHANGED <<files, wire>>
    /\ UNCHANGED <<rest, buffers>>

(* upload_file_chunk_queued and upload_file_chunk: a chunk is read and     *)
(* written, or either fails; a write of nothing is the error would_block   *)
(* of socket::write, so that `!*written' is not reached without one.  The  *)
(* loop of the blocking one ends after the last chunk and leaves the file  *)
(* open and the callback uncalled.                                         *)
upload_file_chunk(k) ==
    LET t == tasks[k] IN
    /\ t.at = "file" /\ t.left > 0
    /\ \/ /\ stream = "open"
          /\ wire' = Append(wire, <<"file", t.part>>)
          /\ tasks' = IF Blocking /\ t.left = 1 THEN Others(k)
                      ELSE Append(Others(k), [t EXCEPT !.left = @ - 1])
          /\ UNCHANGED <<files, stream, resolver, answers, status>>
       \/ Fails(k, "file") /\ files' = files - 1 /\ UNCHANGED wire
    /\ UNCHANGED <<rest, buffers>>

upload_file_done(k) ==
    LET t == tasks[k] IN
    /\ t.at = "file" /\ t.left = 0
    /\ files' = files - 1
    /\ tasks' = Append(Others(k), Task("finish", t.part, 0))
    /\ UNCHANGED <<rest, wire, stream, buffers, resolver, answers, status>>

finish_written(k) ==
    LET part == tasks[k].part IN
    /\ tasks[k].at = "finish"
    /\ \/ /\ stream = "open" /\ wire' = Append(wire, <<"finish", part>>)
          /\ tasks' = Append(Others(k), upload(part + 1))
          /\ UNCHANGED <<stream, resolver, answers, status>>
       \/ Fails(k, "finish") /\ UNCHANGED wire
    /\ UNCHANGED <<rest, buffers, files>>

(* client::receive: the head of the response is parsed, or the read or     *)
(* the parser fails.                                                       *)
receive(k) ==
    /\ tasks[k].at = "read" /\ tasks' = Others(k)
    /\ \/ stream = "open" /\ report("met")
       \/ report("error")
    /\ UNCHANGED <<rest, wire, buffers, files>>

(* The last continuations of http::fetch: disconnect after a response, and *)
(* release the client in every case.                                       *)
fetched ==
    /\ \/ life = "sent" /\ answers > 0 /\ stream' = "closed"
       \/ life = "failed" /\ UNCHANGED stream
    /\ life' = "released"
    /\ status' = IF life = "failed" THEN "error" ELSE status
    /\ UNCHANGED <<request, tasks, wire, buffers, files, sizes, resolver, answers>>

Step(k) == \/ head_written(k) \/ body_written(k) \/ data_written(k) \/ upload_file(k) \/ sendfile_done(k)
           \/ upload_file_chunk(k) \/ upload_file_done(k) \/ finish_written(k) \/ receive(k)

Rests == tasks = <<>> /\ UNCHANGED vars

Progress == connect_async \/ send \/ send_unbounded \/ fetched \/ (\E k \in DOMAIN tasks : Step(k))

Next == Progress \/ Rests

Spec == Init /\ [][Next]_vars /\ WF_vars(Progress)

(***************************************************************************)
(* Properties                                                              *)
(***************************************************************************)

Pieces(part) ==
    IF request[part] = "memory" THEN << <<"data", part>> >>
    ELSE << <<"data", part>> >> \o [k \in 1..sizes[part] |-> <<"file", part>>] \o << <<"finish", part>> >>

Expected ==
    << <<"head", 0>> >> \o
    (IF IsForm(request) THEN FlattenSeq([part \in 1..Len(request) |-> Pieces(part)])
     ELSE IF request = <<"body">> THEN << <<"body", 1>> >> ELSE <<>>)

(* When client::send begins to wait for the response, what it announced    *)
(* with Content-Length is on the wire: every part once, whole, in order.   *)
BodyExact ==
    \A k \in DOMAIN tasks : tasks[k].at = "read" => wire = Expected

(* Nothing is left to run and the promise is not answered: the file that   *)
(* upload_file_chunk has written to a blocking socket.                     *)
Silent ==
    /\ Blocking /\ life = "sent" /\ tasks = <<>> /\ answers = 0
    /\ Last(wire)[1] = "file" /\ stream = "open"

(* The promise of a request is answered at most once, and before nothing   *)
(* is left that could answer it, unless upload_file_chunk went silent.     *)
AnsweredOnce ==
    /\ answers <= 1
    /\ life = "sent" /\ tasks = <<>> /\ ~Silent => answers = 1

(* When a request is over no file is open, the buffer of the head is back  *)
(* in hrm_cache; upload_file_chunk leaves the file open that it has        *)
(* written.                                                                *)
Released ==
    /\ life \in {"sent", "released"} /\ tasks = <<>> =>
          buffers = 0 /\ files = IF Silent THEN 1 ELSE 0
    /\ buffers \in {0, 1} /\ files >= 0

(* A request that failed leaves no connection behind that another request  *)
(* could be written to.                                                    *)
ErrorCloses == status = "error" => stream # "open"

(* Every request ends, and its client with it, or goes silent.             *)
Ended == life \in {"released", "finished"} \/ Silent
=============================================================================
