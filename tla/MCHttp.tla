------------------------------ MODULE MCHttp -------------------------------
(* The http server and client, the websocket codec and the smtp client for  *)
(* TLC. One of them runs in a behaviour.                                    *)
EXTENDS Integers

VARIABLES
    part,  \* the component that runs in this behaviour
    s1, s2, s3, s4, s5, s6, s7, s8, s9, s10, s11, s12, s13, s14  \* its state

\* Forms of up to three parts, a body, and no body at all.
Forms == {<<"plain">>, <<"body">>, <<"memory">>, <<"file">>, <<"file", "memory">>, <<"memory", "file", "file">>}

\* Labels are compared without regard to case.
Key(l) == IF l = "Host" THEN "host" ELSE l

Request == INSTANCE HttpServer WITH
    MaxRedirects <- 2, MaxChunks <- 2, todo <- s1, waits <- s2, held <- s3, heads <- s4,
    ends <- s5, status <- s6, error <- s7, outcome <- s8, left <- s9, redirects <- s10,
    directory <- s11, finalized <- s12, cancelled <- s13, faults <- s14

Client == INSTANCE HttpClient WITH
    Requests <- Forms, Blocking <- FALSE, Sendfile <- FALSE, MaxChunks <- 2, life <- s1,
    request <- s2, tasks <- s3, wire <- s4, stream <- s5, buffers <- s6, files <- s7,
    sizes <- s8, resolver <- s9, answers <- s10, status <- s11

Sends == INSTANCE HttpClient WITH
    Requests <- {<<"file">>, <<"file", "memory">>}, Blocking <- FALSE, Sendfile <- TRUE,
    MaxChunks <- 2, life <- s1, request <- s2, tasks <- s3, wire <- s4, stream <- s5,
    buffers <- s6, files <- s7, sizes <- s8, resolver <- s9, answers <- s10, status <- s11

Blocks == INSTANCE HttpClient WITH
    Requests <- Forms, Blocking <- TRUE, Sendfile <- FALSE, MaxChunks <- 2, life <- s1,
    request <- s2, tasks <- s3, wire <- s4, stream <- s5, buffers <- s6, files <- s7,
    sizes <- s8, resolver <- s9, answers <- s10, status <- s11

Heads == INSTANCE HttpHead WITH
    Damage <- TRUE, Uninit <- {-1, -2}, sent <- s1, input <- s2, pos <- s3, pc <- s4, out <- s5,
    end <- s6, overrun <- s7, method <- s8, path <- s9, query <- s10, status <- s11,
    header <- s12, headers <- s13

Fetch == INSTANCE HttpFetch WITH
    Kinds <- {"limited", "bare", "form"}, Sizes <- {1, 3, 4, 9}, Prefetched <- {0, 1, 2}, Aborts <- TRUE,
    MaxHex <- 2, msg <- s1, wire <- s2, content <- s3, chunked <- s4, call <- s5, max <- s6,
    sub <- s7, eat <- s8, pc <- s9, ok <- s10, taken <- s11, eaten <- s12,
    faults <- s13

Chunks == INSTANCE HttpFetch WITH
    Kinds <- {"chunked"}, Sizes <- {5, 40}, Prefetched <- {0, 9, 13}, Aborts <- TRUE, MaxHex <- 2,
    msg <- s1, wire <- s2, content <- s3, chunked <- s4, call <- s5, max <- s6, sub <- s7,
    eat <- s8, pc <- s9, ok <- s10, taken <- s11, eaten <- s12,
    faults <- s13

Form == INSTANCE HttpMultipart WITH
    MaxResources <- 2, HeaderCuts <- FALSE, OpenFails <- FALSE, wire <- s1, buf <- s2, i <- s3,
    mark <- s4, state <- s5, index <- s6, look_behind <- s7, header <- s8, data <- s9,
    stream <- s10, finish <- s11, resources <- s12

Cuts == INSTANCE HttpMultipart WITH
    MaxResources <- 2, HeaderCuts <- TRUE, OpenFails <- TRUE, wire <- s1, buf <- s2, i <- s3,
    mark <- s4, state <- s5, index <- s6, look_behind <- s7, header <- s8, data <- s9,
    stream <- s10, finish <- s11, resources <- s12

Maps == INSTANCE HttpFrames WITH
    Labels <- {"Host", "host", "Path"}, Values <- {"v", "w"}, LoadFactor <- 1, Files <- {"f"},
    Numbers <- {-1, 0, 1, 3, 4}, Lengths <- {0, 3}, MaxPut <- 2, MaxResets <- 1, kind <- s1,
    headers <- s2, cookies <- s3, setcookies <- s4, resources <- s5, disk <- s6, removals <- s7,
    resets <- s8, cut <- s9, given <- s10, crumbs <- s11

Codec == INSTANCE WebCodec WITH
    Ops <- {0, 1, 2, 9, 8}, Sizes <- {0, 125, 126, 65535, 65536}, Frames <- 2, Splits <- FALSE,
    frames <- s1, wire <- s2, codec <- s3, blocked <- s4, delivered <- s5, torn <- s6

Torn == INSTANCE WebCodec WITH
    Ops <- {0, 1, 9}, Sizes <- {0, 3, 126}, Frames <- 2, Splits <- TRUE,
    frames <- s1, wire <- s2, codec <- s3, blocked <- s4, delivered <- s5, torn <- s6

Mail == INSTANCE Smtp WITH
    Offers <- {"STARTTLS", "AUTH", "LOGIN", "PLAIN", "CRAM-MD5", "DIGEST-MD5"}, Secure <- TRUE,
    Recipients <- 2, Attachments <- 0, Length <- 0, MaxCalls <- 3, at <- s1, io <- s2,
    due <- s3, wire <- s4, buffer <- s5, stream <- s6, tls <- s7, authorized <- s8,
    pending <- s9, left <- s10, file <- s11, calls <- s12, answers <- s13, status <- s14

Attach == INSTANCE Smtp WITH
    Offers <- {"AUTH", "PLAIN"}, Secure <- FALSE, Recipients <- 2, Attachments <- 2,
    Length <- 2, MaxCalls <- 3, at <- s1, io <- s2, due <- s3, wire <- s4, buffer <- s5,
    stream <- s6, tls <- s7, authorized <- s8, pending <- s9, left <- s10, file <- s11,
    calls <- s12, answers <- s13, status <- s14

ASSUME /\ Client!ClientAssumption /\ Sends!ClientAssumption /\ Blocks!ClientAssumption
       /\ Heads!HeadAssumption /\ Fetch!FetchAssumption /\ Chunks!FetchAssumption
       /\ Form!MultipartAssumption /\ Cuts!MultipartAssumption /\ Mail!SmtpAssumption
       /\ Attach!SmtpAssumption

all == <<part, s1, s2, s3, s4, s5, s6, s7, s8, s9, s10, s11, s12, s13, s14>>

-----------------------------------------------------------------------------
Init ==
    \/ /\ part = "request" /\ Request!Init
    \/ /\ part = "client" /\ Client!Init /\ s12 = "off" /\ s13 = "off" /\ s14 = "off"
    \/ /\ part = "sendfile" /\ Sends!Init /\ s12 = "off" /\ s13 = "off" /\ s14 = "off"
    \/ /\ part = "blocking" /\ Blocks!Init /\ s12 = "off" /\ s13 = "off" /\ s14 = "off"
    \/ /\ part = "head" /\ Heads!Init /\ s14 = "off"
    \/ /\ part = "fetch" /\ Fetch!Init /\ s14 = "off"
    \/ /\ part = "chunks" /\ Chunks!Init /\ s14 = "off"
    \/ /\ part = "form" /\ Form!Init /\ s13 = "off" /\ s14 = "off"
    \/ /\ part = "cuts" /\ Cuts!Init /\ s13 = "off" /\ s14 = "off"
    \/ /\ part = "frames" /\ Maps!Init /\ s12 = "off" /\ s13 = "off" /\ s14 = "off"
    \/ /\ part = "codec" /\ Codec!Init /\ s7 = "off" /\ s8 = "off" /\ s9 = "off"
       /\ s10 = "off" /\ s11 = "off" /\ s12 = "off" /\ s13 = "off" /\ s14 = "off"
    \/ /\ part = "splits" /\ Torn!Init /\ s7 = "off" /\ s8 = "off" /\ s9 = "off"
       /\ s10 = "off" /\ s11 = "off" /\ s12 = "off" /\ s13 = "off" /\ s14 = "off"
    \/ /\ part = "smtp" /\ Mail!Init
    \/ /\ part = "attach" /\ Attach!Init

\* A step of a component.
OfRequest(A) == /\ part = "request" /\ A /\ UNCHANGED part
OfClient(A) == /\ part = "client" /\ A /\ UNCHANGED <<part, s12, s13, s14>>
OfSends(A) == /\ part = "sendfile" /\ A /\ UNCHANGED <<part, s12, s13, s14>>
OfBlocks(A) == /\ part = "blocking" /\ A /\ UNCHANGED <<part, s12, s13, s14>>
OfHeads(A) == /\ part = "head" /\ A /\ UNCHANGED <<part, s14>>
OfFetch(A) == /\ part = "fetch" /\ A /\ UNCHANGED <<part, s14>>
OfChunks(A) == /\ part = "chunks" /\ A /\ UNCHANGED <<part, s14>>
OfForm(A) == /\ part = "form" /\ A /\ UNCHANGED <<part, s13, s14>>
OfCuts(A) == /\ part = "cuts" /\ A /\ UNCHANGED <<part, s13, s14>>
OfMaps(A) == /\ part = "frames" /\ A /\ UNCHANGED <<part, s12, s13, s14>>
OfCodec(A) == /\ part = "codec" /\ A
              /\ UNCHANGED <<part, s7, s8, s9, s10, s11, s12, s13, s14>>
OfTorn(A) == /\ part = "splits" /\ A
             /\ UNCHANGED <<part, s7, s8, s9, s10, s11, s12, s13, s14>>
OfMail(A) == /\ part = "smtp" /\ A /\ UNCHANGED part
OfAttach(A) == /\ part = "attach" /\ A /\ UNCHANGED part

Next ==
    \/ OfRequest(Request!Next)
    \/ OfClient(Client!Next)
    \/ OfSends(Sends!Next)
    \/ OfBlocks(Blocks!Next)
    \/ OfHeads(Heads!Next)
    \/ OfFetch(Fetch!Next)
    \/ OfChunks(Chunks!Next)
    \/ OfForm(Form!Next)
    \/ OfCuts(Cuts!Next)
    \/ OfMaps(Maps!Next)
    \/ OfCodec(Codec!Next)
    \/ OfTorn(Torn!Next)
    \/ OfMail(Mail!Next)
    \/ OfAttach(Attach!Next)

(* Tasks run, and every read and write ends, at the latest with a timeout. *)
Fair ==
    WF_all(\/ OfRequest(Request!Next) \/ OfClient(Client!Progress) \/ OfSends(Sends!Progress)
           \/ OfBlocks(Blocks!Progress)
           \/ OfHeads(Heads!Next) \/ OfFetch(Fetch!Works) \/ OfMaps(Maps!remove_files)
           \/ OfForm(Form!Next) \/ OfMail(Mail!Steps) \/ OfAttach(Attach!Steps))

Spec == Init /\ [][Next]_all /\ Fair

-----------------------------------------------------------------------------
(* A request to the server is finalized at most once and does nothing      *)
(* after that; its response has one head and one end, and the strings,     *)
(* files and compressors it took are given back on every path through the  *)
(* routes, errors and cancelled waits included.  Three paths are not so,   *)
(* and are named in the formulas: a PUT whose seek fails keeps its file    *)
(* open (http.cpp 5054), a body in chunks is never finished (1892-1900),   *)
(* and the end of a compressed response is written again after a last      *)
(* chunk that was written at once (5791).                                  *)
RequestFinalized ==
    part = "request" => /\ Request!TypeOK /\ Request!FinalizedOnce /\ Request!NothingAfter
                        /\ Request!OneHead /\ Request!Released /\ Request!OneEnd

(* The client writes every part of a request once, whole and in order      *)
(* before it reads the response; its promise is answered once, no file or  *)
(* buffer is left, and a request that failed leaves no open connection.    *)
(* Where the socket sends files itself the order is not promised, since    *)
(* upload_file calls back twice (http.cpp 6658); on a blocking socket a    *)
(* request with a file that is not empty goes silent after its last chunk, *)
(* with the file open and the promise unanswered (6675-6695).              *)
RequestSent ==
    /\ part = "client" => /\ Client!BodyExact /\ Client!AnsweredOnce /\ Client!Released
                          /\ Client!ErrorCloses
    /\ part = "sendfile" => Sends!AnsweredOnce /\ Sends!Released /\ Sends!ErrorCloses
    /\ part = "blocking" => /\ Blocks!BodyExact /\ Blocks!AnsweredOnce /\ Blocks!Released
                            /\ Blocks!ErrorCloses

(* A head that arrived whole is understood as it was meant, one that is    *)
(* cut makes the caller wait, and no loop runs past the end of it.  The    *)
(* accessors of a frame see what was given for a label in this request and *)
(* nothing of an earlier one; a response has one cookie of a name, and a   *)
(* range lies inside of the content.                                       *)
HeadUnderstood ==
    /\ part = "head" => /\ Heads!HeadExact /\ Heads!CutWaits /\ Heads!NoOverrun /\ Heads!EndsAgree
    /\ part = "frames" => Maps!HeadersSeen /\ Maps!CookieOnce /\ Maps!RangesInside

(* However the network cuts a body, what is delivered is that body: in     *)
(* pieces to fetches of the client, in files to an upload, in frames to a  *)
(* websocket; no byte twice, none missing, none left for the next message. *)
(* The formulas leave out what the code does not keep: a fetch of no more  *)
(* than came with the head, a chunked body fetched in pieces that end in   *)
(* chunks, a response without a length, headers of a part that a buffer    *)
(* cuts, a websocket message in several frames; and of a websocket payload *)
(* that is cut only the number of bytes is kept.  A fetch that decodes the *)
(* end of a chunked body has the body but is never answered.               *)
BodyDelivered ==
    /\ part = "fetch" => Fetch!FetchExact /\ Fetch!CleanStream
    /\ part = "chunks" => Chunks!FetchExact /\ Chunks!CleanStream /\ Chunks!NoFalseError
    /\ part = "form" => Form!ContentExact /\ Form!HeadersExact /\ Form!Bounded
    /\ part = "cuts" => Cuts!ContentExact /\ Cuts!Bounded
    /\ part = "codec" => Codec!TypeOK /\ Codec!FramesDelivered
    /\ part = "splits" => Torn!TypeOK /\ Torn!FramesDelivered /\ Torn!BytesConserved

(* The smtp client and the server stay in step through pipelined commands, *)
(* a success is a whole dialogue, neither a login nor a mail goes over a   *)
(* connection that is to be encrypted first, and a call is answered once.  *)
MailInStep ==
    /\ part = "smtp" => Mail!InStep /\ Mail!Delivered /\ Mail!SecureFirst /\ Mail!AnsweredOnce
    /\ part = "attach" => Attach!InStep /\ Attach!AnsweredOnce

Pending ==
    \/ part \in {"request", "client", "sendfile", "blocking", "head"}
    \/ part = "fetch" /\ Fetch!Busy
    \/ part = "form" /\ Form!Delivered
    \/ part = "frames" /\ Maps!Leftover # {}
    \/ part = "smtp" /\ ~Mail!AllAnswered
    \/ part = "attach" /\ ~Attach!AllAnswered

Over ==
    \/ part = "request" /\ Request!Finished
    \/ part = "client" /\ Client!Ended
    \/ part = "sendfile" /\ Sends!Ended
    \/ part = "blocking" /\ Blocks!Ended
    \/ part = "head" /\ Heads!Done
    \/ part = "fetch" /\ ~Fetch!Busy
    \/ part = "form" /\ Form!Stored
    \/ part = "frames" /\ Maps!Leftover = {}
    \/ part = "smtp" /\ Mail!AllAnswered
    \/ part = "attach" /\ (Attach!AllAnswered \/ Attach!Attaching)

(* What is begun comes to an end: redirects, error pages and chunks of a   *)
(* request, the client of http::fetch, the parser of heads, the fetch of a *)
(* body that is not chunked, the calls of the smtp client; a form that was *)
(* delivered is stored, up to the limit, and its files are removed.  Three *)
(* things do not end, and are named in the formulas: a request whose body  *)
(* came in chunks (http.cpp 1892-1900), an upload of a file on a blocking  *)
(* socket (6675-6695), and a mail that has come to its attachments         *)
(* (smtp.cpp 507, 651-674).                                                *)
EverythingEnds == Pending ~> Over
=============================================================================
