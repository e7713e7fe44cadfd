-------------------------------- MODULE Smtp --------------------------------
(***************************************************************************)
(* network::smtp::client (smtp.cpp): the dialogue with a mail server from  *)
(* the greeting to QUIT.  A command is written, then its replies are read  *)
(* line by line; `at` is the continuation that runs when both are done.    *)
(* The server answers every command once, after any number of lines that   *)
(* announce what it can do, with the code the client expects or another.   *)
(***************************************************************************)
EXTENDS Integers, Sequences, FiniteSets

CONSTANTS
    Offers,       \* what the server may announce: "STARTTLS", "AUTH", mechanisms
    Secure,       \* is_secure()
    Recipients,   \* how many recipients, copies included
    Attachments,  \* how many attachments, of Length blobs each
    Length,
    MaxCalls      \* connect, send and disconnect together

SmtpAssumption ==
    /\ Offers \subseteq {"STARTTLS", "AUTH", "LOGIN", "PLAIN", "CRAM-MD5", "DIGEST-MD5"}
    /\ Secure \in BOOLEAN /\ Recipients \in Nat \ {0}
    /\ {Attachments, Length, MaxCalls} \subseteq Nat

VARIABLES
    at, io,      \* the next continuation, and what it waits for: "write", "read", nothing ("run"), "idle"
    due,         \* replies the server owes
    wire,        \* commands written since the last call
    buffer,      \* what the replies announced since the buffer was cleared
    stream,      \* "none", "open", "closed"
    tls,         \* the handshake is done
    authorized, pending,
    left, file,  \* length of the first attachment, and whether attachment_file is open
    calls, answers, status

vars == <<at, io, due, wire, buffer, stream, tls, authorized, pending, left, file, calls, answers, status>>
mail == <<pending, left, file>>

Init ==
    /\ at = "none" /\ io = "idle" /\ due = 0 /\ wire = <<>> /\ buffer = {} /\ stream = "none"
    /\ tls = FALSE /\ authorized = FALSE /\ pending = 0 /\ left = 0 /\ file = FALSE
    /\ calls = 0 /\ answers = 0 /\ status = "none"

(* Continuations that are given to read_response or send_request; the      *)
(* others are given to write_queued.                                       *)
Replies == {"greeted", "ehlo", "starttls", "secure_ehlo", "replied", "data", "ended", "quit",
            "login_user", "login_password", "cram", "digest", "digest_last", "authorized"}
(* How many commands, and so replies, the write before a continuation has. *)
Commands(next) ==
    IF next = "mail" THEN 1 + Recipients
    ELSE IF next = "end" \/ next \in Replies \ {"greeted", "replied", "ended"} THEN 1 ELSE 0

Goes(next, how) == at' = next /\ io' = how
send_request(next) == Goes(next, "write")

(* socket_client::report: an error closes the stream; the resolver of send *)
(* clears the buffer.                                                      *)
report(result) ==
    /\ Goes("none", "idle") /\ answers' = answers + 1 /\ status' = result
    /\ stream' = IF result = "error" THEN "closed" ELSE stream

Clears(result) == report(result) /\ buffer' = {}

Reset == IF wire # <<>> /\ wire[1] = "connect" THEN UNCHANGED buffer ELSE buffer' = {}

-----------------------------------------------------------------------------
(* socket_client::connect_queued reaches on_connect, which reads the       *)
(* greeting.                                                               *)
on_connect ==
    /\ io = "idle" /\ calls < MaxCalls /\ stream # "open" /\ calls' = calls + 1
    /\ stream' = "open" /\ tls' = FALSE /\ authorized' = FALSE /\ due' = 1
    /\ wire' = <<"connect">> /\ Goes("greeted", "read")
    /\ UNCHANGED <<buffer, mail, answers, status>>

(* send(): authorize() first where the server has announced AUTH.          *)
send ==
    /\ io = "idle" /\ stream = "open" /\ calls < MaxCalls /\ calls' = calls + 1
    /\ wire' = <<"send">>
    /\ \E authenticate \in BOOLEAN :
          Goes(IF ~authorized /\ authenticate /\ "AUTH" \in buffer THEN "authorize" ELSE "prepare", "run")
    /\ left' = Length
    /\ UNCHANGED <<due, buffer, stream, tls, authorized, pending, file, answers, status>>

on_disconnect ==
    /\ io = "idle" /\ stream = "open" /\ calls < MaxCalls /\ calls' = calls + 1
    /\ wire' = <<"disconnect">> /\ send_request("quit")
    /\ UNCHANGED <<due, buffer, stream, tls, authorized, mail, answers, status>>

-----------------------------------------------------------------------------
(* The callback of write_queued: the next step, or an error.               *)
written ==
    /\ io = "write"
    /\ \/ /\ io' = IF at \in Replies THEN "read" ELSE "run"
          /\ due' = due + Commands(at) /\ UNCHANGED <<at, buffer, stream, answers, status>>
          /\ wire' = IF at \in {"attached", "chunk"} THEN wire ELSE Append(wire, at)
       \/ report("error") /\ Reset /\ UNCHANGED <<due, wire>>
    /\ UNCHANGED <<tls, authorized, mail, calls>>

(* read_response: one line.  A line that continues is kept in the buffer   *)
(* and read on; a code that is not the one expected, a line that is not a  *)
(* reply and a lost connection are errors.                                 *)
read_response ==
    /\ io = "read" /\ due > 0 /\ UNCHANGED <<wire, tls, authorized, mail, calls>>
    /\ \/ \E offer \in Offers \ buffer : /\ buffer' = buffer \cup {offer}
                                         /\ UNCHANGED <<at, io, due, stream, answers, status>>
       \/ due' = due - 1 /\ io' = "run" /\ UNCHANGED <<at, buffer, stream, answers, status>>
       \/ due' \in {due, due - 1} /\ report("error") /\ Reset

Runs(step) == at = step /\ io = "run" /\ UNCHANGED calls
keep == <<due, wire, buffer, stream, tls, authorized, answers, status>>

(* The continuations of on_connect.                                        *)
greeted == Runs("greeted") /\ send_request("ehlo") /\ UNCHANGED <<keep, mail>>

ehlo ==
    /\ Runs("ehlo") /\ UNCHANGED <<due, wire, buffer, tls, authorized, mail>>
    /\ \/ ~Secure /\ report("met")
       \/ Secure /\ "STARTTLS" \notin buffer /\ report("error")
       \/ Secure /\ "STARTTLS" \in buffer /\ send_request("starttls") /\ UNCHANGED <<stream, answers, status>>

handshake ==
    /\ Runs("starttls") /\ UNCHANGED <<due, wire, buffer, authorized, mail>>
    /\ \/ tls' = TRUE /\ send_request("secure_ehlo") /\ UNCHANGED <<stream, answers, status>>
       \/ report("error") /\ UNCHANGED tls

secure_ehlo == /\ Runs("secure_ehlo") /\ report("met")
               /\ UNCHANGED <<due, wire, buffer, tls, authorized, mail>>

quit == /\ Runs("quit") /\ report("met") /\ authorized' = FALSE
        /\ UNCHANGED <<due, wire, buffer, tls, mail>>

-----------------------------------------------------------------------------
(* authorize(): the first mechanism that the server has announced.         *)
authorize ==
    /\ Runs("authorize") /\ UNCHANGED <<due, wire, tls, authorized, mail>>
    /\ \/ /\ \/ "LOGIN" \in buffer /\ send_request("login_user")
             \/ buffer \cap {"LOGIN", "PLAIN"} = {"PLAIN"} /\ send_request("authorized")
             \/ buffer \cap {"LOGIN", "PLAIN", "CRAM-MD5"} = {"CRAM-MD5"} /\ send_request("cram")
             \/ /\ buffer \cap {"LOGIN", "PLAIN", "CRAM-MD5", "DIGEST-MD5"} = {"DIGEST-MD5"}
                /\ send_request("digest")
          /\ UNCHANGED <<buffer, stream, answers, status>>
       \/ buffer \cap {"LOGIN", "PLAIN", "CRAM-MD5", "DIGEST-MD5"} = {} /\ Clears("error")
(* A request without login or password.                                    *)
authorize_invalid == /\ Runs("authorize") /\ Clears("error") /\ UNCHANGED <<due, wire, tls, authorized, mail>>

login_user == Runs("login_user") /\ send_request("login_password") /\ UNCHANGED <<keep, mail>>
login_password == Runs("login_password") /\ send_request("authorized") /\ UNCHANGED <<keep, mail>>
cram == Runs("cram") /\ send_request("authorized") /\ UNCHANGED <<keep, mail>>
(* The challenge may lack its nonce; getpeername returns 0 when it works,  *)
(* which the code takes for an error.                                      *)
digest == /\ Runs("digest") /\ UNCHANGED <<due, wire, tls, authorized, mail>>
          /\ \/ Clears("error")
             \/ send_request("digest_last") /\ UNCHANGED <<buffer, stream, answers, status>>
digest_last == Runs("digest_last") /\ send_request("authorized") /\ UNCHANGED <<keep, mail>>

(* The callback of every mechanism.                                        *)
authorize_done == /\ Runs("authorized") /\ authorized' = TRUE /\ Goes("prepare", "run")
                  /\ UNCHANGED <<due, wire, buffer, stream, tls, answers, status, mail>>

-----------------------------------------------------------------------------
(* prepare_and_send: MAIL FROM and every RCPT TO in one write, or an error *)
(* for a request without a sender or a recipient.                          *)
prepare_and_send ==
    /\ Runs("prepare") /\ UNCHANGED <<due, wire, tls, authorized, mail>>
    /\ \/ send_request("mail") /\ UNCHANGED <<buffer, stream, answers, status>>
       \/ Clears("error")

(* Faulty count of replies: the one to MAIL FROM is forgotten.             *)
mail_written_one_less ==
    /\ Runs("mail") /\ pending' = Recipients
    /\ Goes("replied", "read") /\ UNCHANGED <<keep, left, file>>

mail_written ==
    /\ Runs("mail") /\ pending' = 1 + Recipients
    /\ Goes("replied", "read") /\ UNCHANGED <<keep, left, file>>

(* read_responses counts the replies.                                      *)
read_responses ==
    /\ Runs("replied") /\ UNCHANGED <<keep, left, file>>
    /\ \/ pending > 1 /\ pending' = pending - 1 /\ Goes("replied", "read")
       \/ pending <= 1 /\ pending' = Attachments /\ send_request("data")

(* The headers, then the message.                                          *)
data_ready == Runs("data") /\ send_request("head") /\ UNCHANGED <<keep, mail>>
head_written == Runs("head") /\ send_request("message") /\ UNCHANGED <<keep, mail>>

(* send_attachment: the end of the message when pending is 0, or the head  *)
(* of the next attachment.  Nothing decreases pending after DATA, so that  *)
(* it is always the first one.                                             *)
send_attachment ==
    /\ at \in {"message", "chunk"} /\ Runs(at) /\ (at = "chunk" => left = 0)
    /\ \/ pending <= 0 /\ send_request("end")
       \/ pending > 0 /\ send_request("attached")
    /\ UNCHANGED <<keep, mail>>

(* process_attachment, also on behalf of the callback that opens the file: *)
(* a chunk is read and written; the last one closes the file.              *)
process_attachment ==
    /\ at \in {"attached", "chunk"} /\ Runs(at) /\ (at = "chunk" => left > 0)
    /\ \/ /\ left' = IF left = 0 THEN 0 ELSE left - 1
          /\ file' = (left' > 0) /\ send_request("chunk")
          /\ UNCHANGED <<keep, pending>>
       \/ /\ Clears("error") /\ file' = (file \/ at = "attached")
          /\ UNCHANGED <<due, wire, tls, authorized, pending, left>>
(* The file does not open.                                                 *)
attachment_unopened == /\ Runs("attached") /\ Clears("error")
                       /\ UNCHANGED <<due, wire, tls, authorized, mail>>

end_written == Runs("end") /\ Goes("ended", "read") /\ UNCHANGED <<keep, mail>>

(* read_responses with nothing pending, and the answer to send.            *)
ended == Runs("ended") /\ Clears("met") /\ UNCHANGED <<due, wire, tls, authorized, mail>>

-----------------------------------------------------------------------------
Calls == on_connect \/ send \/ on_disconnect
Connects == greeted \/ ehlo \/ handshake \/ secure_ehlo \/ quit
Authorizes == \/ authorize \/ authorize_invalid \/ login_user \/ login_password \/ cram
              \/ digest \/ digest_last \/ authorize_done
Mails == \/ prepare_and_send \/ mail_written \/ read_responses \/ data_ready \/ head_written
         \/ send_attachment \/ process_attachment \/ attachment_unopened \/ end_written \/ ended
Rests == (io = "idle" \/ (io = "read" /\ due = 0)) /\ UNCHANGED vars

Steps == written \/ read_response \/ Connects \/ Authorizes \/ Mails
Next == Calls \/ Steps \/ Rests

(* The socket completes every read and write, or times out.                *)
Spec == Init /\ [][Next]_vars /\ WF_vars(Steps)

(***************************************************************************)
(* Properties                                                              *)
(***************************************************************************)

(* The client and the server stay in step: whenever a command is written,  *)
(* or a call has been answered with success, every reply has been read.    *)
(* The pipelined MAIL FROM and RCPT TO depend on the count of replies.     *)
InStep == stream = "open" /\ io \in {"write", "idle"} => due = 0

(* A send that reports success has written the whole dialogue of one mail, *)
(* in order, after an authorization or without one.                        *)
Dialogue == <<"mail", "data", "head", "message", "end">>
Delivered ==
    io = "idle" /\ status = "met" /\ wire # <<>> /\ wire[1] = "send"
        => SubSeq(wire, Len(wire) - 4, Len(wire)) = Dialogue

(* With is_secure(), neither a login nor a mail is written before the      *)
(* connection is encrypted.                                                *)
SecureFirst ==
    Secure /\ ~tls => \A k \in DOMAIN wire : wire[k] \in {"connect", "send", "disconnect", "ehlo", "starttls", "quit"}

(* Every call is answered once, and before the next one is made.           *)
AnsweredOnce == /\ answers \in {calls, calls - 1}
                /\ io = "idle" <=> answers = calls

(* Every call is answered, but for a send that has come to attachments:    *)
(* nothing decreases `pending' after DATA, and the first one is sent until *)
(* a write fails.                                                          *)
AllAnswered == answers = calls
Attaching == pending > 0 /\ at \in {"attached", "chunk"}
=============================================================================
