------------------------------- MODULE CryptoHandles -------------------------------
(* The objects of OpenSSL that compute::crypto, the transport layer and the       *)
(* certificates take and give back, the connections that pq::cluster::connect     *)
(* starts, the buffers of driver::add_directory, the addresses and sockets of     *)
(* dns, the handles and buffers of directories, files and zlib, and the streams,  *)
(* schemas and servers of layer and its processors, which are held by uptr: what  *)
(* a scope still holds is freed when it is left.  Each function takes objects one after the other, any call may fail, and each early  *)
(* return must give back by hand what was taken so far.  A function is the list   *)
(* of its calls, in order, with what every failure branch frees:                  *)
(*   Take(o, S)  o is made; if that fails, S is freed and an error returned       *)
(*   Make(o)     o is made or is null, and the code goes on either way            *)
(*   Got(o)      o is there                                                       *)
(*   Call(S)     a call that takes nothing; if it fails, S is freed, error        *)
(*   Free(S)     the objects of S are freed                                       *)
(*   Own(S)      somebody else takes over the objects of S, or the caller does    *)
(*   Fork(F)     a switch: one of the lists of F is run, then the rest            *)
(*   Fail        an error is returned                                             *)
(*   Leave       it returns without giving back what it holds                     *)
(* The list ends where the function returns its result.                           *)
EXTENDS Naturals, Sequences, FiniteSets

VARIABLES fun,     \* the function that runs, or "none"
          rest,    \* its calls that are still to be made
          live,    \* objects it holds
          freed,   \* objects it freed
          result   \* "none", "running", "value", "error" or "left"
vars == <<fun, rest, live, freed, result>>

Take(o, S) == [op |-> "take", objects |-> {o}, undo |-> S]
Make(o)    == [op |-> "make", objects |-> {o}, undo |-> {}]
Got(o)     == [op |-> "got", objects |-> {o}, undo |-> {}]
Call(S)    == [op |-> "call", objects |-> {}, undo |-> S]
Free(S)    == [op |-> "free", objects |-> S, undo |-> {}]
Own(S)     == [op |-> "own", objects |-> S, undo |-> {}]
Fork(F)    == [op |-> "fork", lists |-> F]
Fail       == [op |-> "fail", objects |-> {}, undo |-> {}]
Leave      == [op |-> "leave", objects |-> {}, undo |-> {}]
Test       == Call({})

----------------------------------------------------------------------------
checksum == <<Take("ctx", {}), Free({"ctx"}), Test>>

hash == <<Take("ctx", {}), Free({"ctx"}), Test>>

private_key_gen ==
  LET rsa == <<Call({"ctx"}), Take("pkey", {"ctx"}), Take("rsa", {"pkey", "ctx"}),
               Make("der"), Free({"rsa", "pkey", "der"})>>
      dsa == <<Take("dsa", {"ctx"}), Call({"dsa", "ctx"}), Call({"dsa", "ctx"}),
               Make("der"), Free({"dsa", "der"})>>
      raw == <<Take("pkey", {"ctx"}), Call({"pkey", "ctx"}), Free({"pkey"})>>
  IN <<Test, Take("ctx", {}), Call({"ctx"}),
       Fork({rsa, dsa, raw, <<Leave>>}),
       Free({"ctx"}), Test>>

to_public_key ==
  LET der == <<Take("key", {}), Make("der"), Free({"key"}), Call({"der"}), Free({"der"})>>
      raw == <<Take("pkey", {}), Call({"pkey"}), Call({"pkey"}), Free({"pkey"})>>
  IN <<Fork({der, raw, <<Fail>>})>>

SignKey == LET der == <<Take("pkey", {}), Take("key", {"pkey"}), Free({"key"})>>
           IN Fork({der, <<Take("pkey", {})>>, <<Fail>>})
sign_leaks == <<Test, SignKey, Make("ctx"), Call({"ctx"}), Call({"ctx", "pkey"}),
                Call({"ctx", "pkey"}), Free({"ctx", "pkey"})>>
sign == <<Test, SignKey, Make("ctx"), Call({"ctx", "pkey"}), Call({"ctx", "pkey"}),
          Call({"ctx", "pkey"}), Free({"ctx", "pkey"})>>
verify == <<Test, SignKey, Make("ctx"), Call({"ctx", "pkey"}), Call({"ctx", "pkey"}),
            Free({"ctx", "pkey"})>>

ec_private_key_gen == <<Take("key", {}), Call({"key"}), Free({"key"}), Test>>

ec_to_public_key ==
  LET mul_failed == <<Free({"scalar"}), Free({"point", "group"}), Fail>>
  IN <<Take("scalar", {}), Take("group", {"scalar"}), Make("point"),
       Fork({mul_failed, <<Free({"scalar"})>>}), Free({"point", "group"}), Test>>

(* The three operations on two scalars differ in the function of OpenSSL only. *)
ScalarPair == LET failed == <<Free({"group", "a", "b"}), Free({"result"}), Fail>>
              IN <<Take("a", {}), Take("b", {"a"}), Take("group", {"a", "b"}), Make("result"),
                   Fork({failed, <<Free({"group", "a", "b"})>>}), Free({"result"}), Test>>
ec_scalar_add == ScalarPair
ec_scalar_sub == ScalarPair
ec_scalar_mul == ScalarPair
ec_scalar_inv ==
  LET failed == <<Free({"group", "a"}), Free({"result"}), Fail>>
  IN <<Take("a", {}), Take("group", {"a"}), Make("result"),
       Fork({failed, <<Free({"group", "a"})>>}), Free({"result"}), Test>>
ec_scalar_is_on_curve == <<Take("a", {}), Take("group", {"a"}), Free({"a", "group"})>>

ec_point_mul ==
  <<Take("group", {}), Make("p"), Call({"p", "group"}), Take("scalar", {"p", "group"}),
    Free({"scalar"}), Call({"p", "group"}), Free({"p", "group"}), Test>>
ec_point_add ==
  <<Take("group", {}), Make("p"), Call({"p", "group"}), Make("q"), Call({"p", "q", "group"}),
    Make("result"), Free({"p", "q"}), Call({"result", "group"}), Free({"result", "group"}), Test>>
ec_point_inv ==
  <<Take("group", {}), Make("p"), Call({"p", "group"}), Call({"p", "group"}),
    Free({"p", "group"}), Test>>
ec_point_is_on_curve ==
  <<Take("group", {}), Make("p"), Call({"p", "group"}), Free({"p", "group"}), Test>>

ec_sign == <<Test>> \o hash \o
           <<Take("n", {}), Take("key", {"n"}), Free({"n"}), Call({"key"}), Call({"key"}), Free({"key"})>>
ec_verify == <<Test>> \o hash \o
             <<Take("key", {}), Make("point"), Call({"point", "key"}), Free({"point"}),
               Call({"key"}), Free({"key"}), Test>>
ec_der_to_rs == <<Test, Take("sig", {}), Free({"sig"}), Test>>
ec_rs_to_der ==
  LET set == <<Own({"r", "s"}), Free({"r", "s"})>>
      unset == <<Free({"r", "s"}), Free({"sig"}), Fail>>
  IN <<Test, Make("r"), Make("s"), Call({"r", "s"}), Take("sig", {"r", "s"}),
       Fork({set, unset}), Make("der"), Free({"sig"}), Call({"der"}), Free({"der"})>>

hmac == <<Test, Take("ctx", {}), Call({"ctx"}), Call({"ctx"}), Call({"ctx"}), Free({"ctx"})>>

(* encrypt, decrypt and their forms for streams: the set up, then the loop over *)
(* the blocks, whose body runs at least once more or not at all, and the end.   *)
Cipher == LET body == <<Call({"ctx"}), Call({"ctx"})>>
          IN <<Test, Take("ctx", {}), Fork({<<Call({"ctx"}), Call({"ctx"})>>, <<>>}), Call({"ctx"}),
               Fork({body \o <<Call({"ctx"})>>, body, <<>>}), Free({"ctx"})>>
encrypt == Cipher
decrypt == Cipher
file_encrypt == Cipher
file_decrypt == Cipher

----------------------------------------------------------------------------
(* transport_layer: a context comes from the pool or is made, and goes to the   *)
(* caller once it is set up.                                                    *)
initialize_context == <<Call({"context"})>>
Context == Fork({<<Take("context", {})>>, <<Got("context")>>})
create_server_context == <<Context>> \o initialize_context \o <<Call({"context"}), Own({"context"})>>
create_client_context == <<Context>> \o initialize_context \o <<Own({"context"})>>

(* The text of an extension or of a key goes through a memory bio.              *)
Bio == <<Make("bio"), Free({"bio"})>>
get_certificate_from_x509 == LET extension == Bio \o Bio
                             IN <<Fork({<<>>, extension, extension \o extension})>>

(* certificate_builder: the certificate and the key are its own until it goes;  *)
(* set_public_key replaces the key, if a new one can be made.                   *)
add_custom_extension == <<Take("data", {}), Call({"data"}), Take("extension", {"data"}),
                          Free({"extension", "data"}), Test>>
add_standard_extension == <<Make("extension"), Free({"extension"})>>
build == Bio \o Bio
set_public_key == <<Got("new_private_key"), Free({"private_key"})>>
generate_self_signed_certificate ==
  LET signed(key) == <<Fork({<<>>, add_standard_extension})>> \o build \o <<Free({"certificate", key})>>
  IN <<Make("certificate"), Make("private_key"),
       Fork({signed("private_key"), set_public_key \o signed("new_private_key")})>>

(* pq::cluster::connect, two connections: they are started, then polled, and    *)
(* one that is ready belongs to the pool.                                       *)
connect ==
  LET names == {"keys", "values"}
      ready(c, d) == <<Call({c, d} \union names), Own({c}), Call({d} \union names), Own({d})>>
      given_up(c, d) == <<Call({c, d} \union names), Own({c}), Free(names), Leave>>
  IN <<Got("keys"), Got("values"),
       Take("a", names), Call({"a"} \union names),
       Take("b", {"a"} \union names), Call({"a", "b"} \union names),
       Fork({ready("a", "b"), ready("b", "a"), given_up("a", "b")}),
       Free(names)>>

(* driver::add_directory, up to two files: what cannot be read is passed over.  *)
Directory == LET file == <<Got("buffer"), Free({"buffer"}), Test>>
             IN <<Test, Fork({<<>>, file, file \o file})>>
pq_add_directory == Directory
sqlite_add_directory == Directory
mongo_add_directory == Directory

----------------------------------------------------------------------------
(* dns::lookup, up to two addresses: a name that is cached needs none.  To      *)
(* connect, a socket is opened for each address, and try_connect_dns selects    *)
(* one; to listen, the first that opens will do.                                *)
lookup ==
  LET to_connect == <<Make("a"), Make("b"), Free({"a", "b"})>>
      to_listen == <<Fork({<<>>, <<Got("a"), Free({"a"})>>})>>
      denied == <<Make("a"), Free({"a"}), Leave>>
  IN <<Fork({<<>>, <<Take("addresses", {}),
                     Fork({to_connect, to_listen, denied}),
                     Free({"addresses"}), Test>>})>>
reverse_lookup == <<Take("address", {}), Free({"address"}), Test>>
get_host_ip_addresses ==
  LET family == Fork({<<>>, <<Got("addresses"), Free({"addresses"})>>})
  IN <<Fork({<<>>, <<family, family>>})>>

(* os::directory::remove, up to two entries: a directory inside is removed by a *)
(* call of its own, with its own handle.                                        *)
remove ==
  LET both == {"buffer", "handle"}
      file == <<Call(both), Free({"buffer"})>>
      directory == <<Free({"buffer"}), Call({"handle"})>>
      entry == <<Got("buffer"), Call(both), Fork({file, directory})>>
  IN <<Test, Fork({<<>>, <<Got("handle"), Fork({<<>>, entry, entry \o entry}), Free({"handle"})>>}), Test>>
scan == <<Test, Test, Take("handle", {}), Free({"handle"})>>
is_empty == <<Fork({<<>>, <<Got("handle"), Free({"handle"})>>})>>

(* os::file::read_all: the caller owns the bytes; read_as_string copies them.   *)
Bytes == LET sized == <<Got("bytes"), Fork({<<>>, <<Call({"bytes"})>>})>>
         IN <<Test, Fork({sized, <<Test, Got("bytes")>>})>>
read_all == Bytes \o <<Own({"bytes"})>>
read_as_string == Bytes \o <<Free({"bytes"})>>

(* codec: decompress tries again with a larger buffer.                          *)
compress == <<Test, Got("buffer"), Call({"buffer"}), Free({"buffer"})>>
decompress == LET short == <<Got("buffer"), Free({"buffer"})>>
              IN <<Test, Fork({<<>>, short, short \o short}), Got("buffer"), Call({"buffer"}), Free({"buffer"})>>

----------------------------------------------------------------------------
(* Streams: opening one again closes what it had open, also when the close      *)
(* reports an error.  A stream that opened keeps its file or its client.        *)
Closed == Fork({<<>>, <<Got("old"), Free({"old"}), Test>>})
file_stream_open == <<Closed, Test, Test, Take("io_stream", {}), Own({"io_stream"})>>
web_stream_open == <<Closed, Test, Test, Test, Got("client"), Call({"client"}), Call({"client"}),
                     Own({"client"})>>

(* os::file: the caller owns the stream that is returned.  A file that is       *)
(* joined to another and cannot be opened is passed over, as is an archive.     *)
file_open == LET opened == <<Got("target"), Call({"target"}), Own({"target"})>>
             IN <<Test, Test, Fork({<<Fail>>, opened})>>
open_join == LET joined == <<Make("base"), Free({"base"})>>
             IN <<Take("target", {}), Fork({joined, joined \o joined}), Own({"target"})>>
open_archive ==
  LET plain == <<Take("target", {}), Own({"target"})>>
      archived == <<Make("target"), Fork({<<>>, <<Make("archive"), Free({"archive"})>>}), Own({"target"})>>
  IN <<Fork({plain, archived})>>

(* schema: what was read belongs to the caller.  The processor of schemas tries *)
(* the binary form, then JSON, then XML.                                        *)
convert_from_json == <<Test, Test, Got("result"), Own({"result"})>>
convert_from_xml == <<Test, Test, Got("result"), Own({"result"})>>
schema_deserialize == <<Fork({<<Got("result"), Own({"result"})>>, convert_from_json, convert_from_xml})>>

(* content_manager::save opens the target, or else the path as it was given.    *)
save == <<Test, Test, Test, Fork({<<Got("stream")>>, <<Take("stream", {})>>}), Call({"stream"}),
          Free({"stream"})>>

(* server_processor::deserialize: the keys and certificates are read and the    *)
(* addresses resolved one by one.  The server owns the router from configure()  *)
(* or set_router() on, and frees it when configure() fails.                     *)
AllOfServer == {"router", "object", "blob"}
ReadCertificates == Fork({<<>>, <<Call(AllOfServer), Call(AllOfServer)>>})
Listen == Fork({<<>>, <<Call(AllOfServer)>>})
server_deserialize ==
  <<Take("blob", {}), Got("router"), Got("object"), ReadCertificates, Listen, Own({"router"}),
    Fork({<<>>, <<Call({"object", "blob"})>>}), Own({"object"}), Free({"blob"})>>

----------------------------------------------------------------------------
Body == [checksum |-> checksum, hash |-> hash, private_key_gen |-> private_key_gen,
  to_public_key |-> to_public_key, sign |-> sign, verify |-> verify,
  ec_private_key_gen |-> ec_private_key_gen, ec_to_public_key |-> ec_to_public_key,
  ec_scalar_add |-> ec_scalar_add, ec_scalar_sub |-> ec_scalar_sub,
  ec_scalar_mul |-> ec_scalar_mul, ec_scalar_inv |-> ec_scalar_inv,
  ec_scalar_is_on_curve |-> ec_scalar_is_on_curve, ec_point_mul |-> ec_point_mul,
  ec_point_add |-> ec_point_add, ec_point_inv |-> ec_point_inv,
  ec_point_is_on_curve |-> ec_point_is_on_curve, ec_sign |-> ec_sign, ec_verify |-> ec_verify,
  ec_der_to_rs |-> ec_der_to_rs, ec_rs_to_der |-> ec_rs_to_der, hmac |-> hmac,
  encrypt |-> encrypt, decrypt |-> decrypt, file_encrypt |-> file_encrypt,
  file_decrypt |-> file_decrypt, create_server_context |-> create_server_context,
  create_client_context |-> create_client_context,
  get_certificate_from_x509 |-> get_certificate_from_x509,
  add_custom_extension |-> add_custom_extension,
  generate_self_signed_certificate |-> generate_self_signed_certificate,
  connect |-> connect, pq_add_directory |-> pq_add_directory,
  sqlite_add_directory |-> sqlite_add_directory, mongo_add_directory |-> mongo_add_directory,
  lookup |-> lookup, reverse_lookup |-> reverse_lookup,
  get_host_ip_addresses |-> get_host_ip_addresses, remove |-> remove, scan |-> scan,
  is_empty |-> is_empty, read_all |-> read_all, read_as_string |-> read_as_string,
  compress |-> compress, decompress |-> decompress, file_stream_open |-> file_stream_open,
  web_stream_open |-> web_stream_open, file_open |-> file_open, open_join |-> open_join,
  open_archive |-> open_archive, schema_deserialize |-> schema_deserialize, save |-> save,
  server_deserialize |-> server_deserialize]

Functions == DOMAIN Body

----------------------------------------------------------------------------
Init == fun = "none" /\ rest = <<>> /\ live = {} /\ freed = {} /\ result = "none"

Start(f) == /\ result # "running"
            /\ fun' = f /\ rest' = Body[f] /\ live' = {} /\ freed' = {} /\ result' = "running"

(* Freeing null does nothing in OpenSSL: only objects that were made count. *)
Release(S) == /\ live' = live \ S
              /\ freed' = freed \union S

Step(op) == result = "running" /\ rest # <<>> /\ Head(rest).op = op
Go == rest' = Tail(rest) /\ result' = "running"
Stop == rest' = <<>> /\ result' = "error"

Taken == /\ Step("take") \/ Step("make") \/ Step("got")
         /\ live' = live \union Head(rest).objects
         /\ freed' = freed \ Head(rest).objects
         /\ Go /\ UNCHANGED fun
Null == /\ Step("make") /\ freed' = freed \ Head(rest).objects
        /\ Go /\ UNCHANGED <<fun, live>>
Called == Step("call") /\ Go /\ UNCHANGED <<fun, live, freed>>
Failed == /\ Step("take") \/ Step("call")
          /\ Release(Head(rest).undo) /\ Stop /\ UNCHANGED fun
Frees == Step("free") /\ Release(Head(rest).objects) /\ Go /\ UNCHANGED fun
Owned == /\ Step("own") /\ live' = live \ Head(rest).objects
         /\ freed' = freed \union Head(rest).objects
         /\ Go /\ UNCHANGED fun
Forks == /\ Step("fork") /\ \E l \in Head(rest).lists : rest' = l \o Tail(rest)
         /\ UNCHANGED <<fun, live, freed, result>>
Fails == Step("fail") /\ Stop /\ UNCHANGED <<fun, live, freed>>
Leaves == Step("leave") /\ rest' = <<>> /\ result' = "left" /\ UNCHANGED <<fun, live, freed>>
Returns == /\ result = "running" /\ rest = <<>> /\ result' = "value"
           /\ UNCHANGED <<fun, rest, live, freed>>

Next == \/ \E f \in Functions : Start(f)
        \/ Taken \/ Null \/ Called \/ Failed \/ Frees \/ Owned \/ Forks \/ Fails \/ Leaves \/ Returns
Spec == Init /\ [][Next]_vars

----------------------------------------------------------------------------
TypeOK == /\ fun \in Functions \union {"none"}
          /\ result \in {"none", "running", "value", "error", "left"}
          /\ live \intersect freed = {}

(* However one of the functions returns, at its end or at any of its early      *)
(* returns, it has given back every object it took, but for these returns:      *)
(* private_key_gen keeps its context for a DH key (compute.cpp 5591), connect   *)
(* the connections not yet ready when poll fails (pq.cpp 1779-1783), and lookup *)
(* the addresses when a socket is denied (network.cpp 1894).                    *)
LeftBy == [private_key_gen |-> {"ctx"}, connect |-> {"b"}, lookup |-> {"addresses"}]
NothingHeld == /\ result \in {"value", "error"} => live = {}
               /\ result = "left" => live = LeftBy[fun]

(* No object is freed twice: what a step frees was not freed before, nor handed  *)
(* over to another object.  ec_rs_to_der alone frees the numbers that the        *)
(* signature has taken over, and the signature frees them again (compute.cpp     *)
(* 6465-6476).                                                                   *)
FreedOnce == fun # "ec_rs_to_der" =>
  /\ Step("free") => Head(rest).objects \intersect freed = {}
  /\ Step("take") \/ Step("call") => (result' = "error" => Head(rest).undo \intersect freed = {})
=============================================================================
