----------------------------- MODULE HttpFrames -----------------------------
(***************************************************************************)
(* The frames of a request: resource, request_frame, response_frame and    *)
(* fetch_frame keep their headers, and two of them their cookies, as a map *)
(* from labels that compare without case to lists of values; the ranges of *)
(* a request are read from one of the headers; the content of a request    *)
(* may have files on disk.  One frame is followed, of the kind in `kind'.  *)
(* A frame is reused for the next request of its connection.               *)
(***************************************************************************)
EXTENDS Integers, Sequences, SequencesExt, FiniteSets

CONSTANTS
    Labels,         \* spellings of labels
    Key(_),         \* the label a spelling stands for
    Values,         \* values of headers and cookies
    LoadFactor,     \* HTTP_KIMV_LOAD_FACTOR
    Files,          \* paths of uploaded files
    Numbers,        \* numbers in a Range header
    Lengths,        \* lengths of contents
    MaxPut,         \* bound: values under one label
    MaxResets       \* bound: requests of the connection

Keys == {Key(l) : l \in Labels}
None == "none"
Nothing == [k \in {} |-> <<>>]

VARIABLES
    kind,           \* the kind of the frame
    headers,        \* the map of headers
    cookies,        \* the map of cookies of a request_frame or fetch_frame
    setcookies,     \* the cookies of a response_frame
    resources,      \* the files of its content
    disk,           \* the files that exist
    removals,       \* tasks that remove files
    resets,
    cut,            \* a range that was asked for: its numbers, the length, the answers
    given, crumbs   \* history: values given for each header, cookie since the last set or cleanup

vars == <<kind, headers, cookies, setcookies, resources, disk, removals, resets, cut, given, crumbs>>
content == <<resources, disk, removals>>

Init ==
    /\ kind \in {"resource", "request", "response", "fetch", "ranged"} /\ cut = <<>>
    /\ headers = Nothing /\ cookies = Nothing /\ setcookies = <<>>
    /\ resources = {} /\ disk = {} /\ removals = {} /\ resets = 0
    /\ given = [k \in Keys |-> <<>>] /\ crumbs = given

-----------------------------------------------------------------------------
(* The maps, as every frame uses them.                                     *)
At(map, l) == IF Key(l) \in DOMAIN map THEN map[Key(l)] ELSE <<>>
Store(map, l, list) == [k \in DOMAIN map \cup {Key(l)} |-> IF k = Key(l) THEN list ELSE map[k]]
LastOf(map, l) == IF At(map, l) = <<>> THEN None ELSE Last(At(map, l))

put_header ==
    \E l \in Labels, v \in Values :
        /\ Len(At(headers, l)) < MaxPut
        /\ headers' = Store(headers, l, Append(At(headers, l), v))
        /\ given' = [given EXCEPT ![Key(l)] = Append(@, v)]
        /\ UNCHANGED <<kind, cookies, setcookies, content, resets, cut, crumbs>>

set_header ==
    \E l \in Labels, v \in Values :
        /\ headers' = Store(headers, l, <<v>>)
        /\ given' = [given EXCEPT ![Key(l)] = <<v>>]
        /\ UNCHANGED <<kind, cookies, setcookies, content, resets, cut, crumbs>>

\* the label is added to the map when it is not there
get_header_ranges ==
    \E l \in Labels :
        headers' = Store(headers, l, At(headers, l)) /\ UNCHANGED <<kind, cookies, setcookies, content, resets, cut, given, crumbs>>
get_cookie_ranges ==
    \E l \in Labels :
        cookies' = Store(cookies, l, At(cookies, l)) /\ UNCHANGED <<kind, headers, setcookies, content, resets, cut, given, crumbs>>
compose_header(l) == At(headers, l)

resource_put_header == kind = "resource" /\ put_header
resource_set_header == kind = "resource" /\ set_header
resource_compose_header(l) == compose_header(l)
resource_get_header_ranges == kind = "resource" /\ get_header_ranges
resource_get_header_blob(l) == LastOf(headers, l)
resource_get_header(l) == LastOf(headers, l)
request_put_header == kind = "request" /\ put_header
request_set_header == kind = "request" /\ set_header
request_compose_header(l) == compose_header(l)
request_get_header_ranges == kind = "request" /\ get_header_ranges
request_get_header_blob(l) == LastOf(headers, l)
request_get_header(l) == LastOf(headers, l)
request_get_cookie_ranges == kind = "request" /\ get_cookie_ranges
request_get_cookie_blob(l) == LastOf(cookies, l)
request_get_cookie(l) == LastOf(cookies, l)
response_put_header == kind = "response" /\ put_header
response_set_header == kind = "response" /\ set_header
response_compose_header(l) == compose_header(l)
response_get_header_ranges == kind = "response" /\ get_header_ranges
response_get_header_blob(l) == LastOf(headers, l)
response_get_header(l) == LastOf(headers, l)
fetch_put_header == kind = "fetch" /\ put_header
fetch_set_header == kind = "fetch" /\ set_header
fetch_compose_header(l) == compose_header(l)
fetch_get_header_ranges == kind = "fetch" /\ get_header_ranges
fetch_get_header_blob(l) == LastOf(headers, l)
fetch_get_header(l) == LastOf(headers, l)
fetch_get_cookie_ranges == kind = "fetch" /\ get_cookie_ranges
fetch_get_cookie_blob(l) == LastOf(cookies, l)
fetch_get_cookie(l) == LastOf(cookies, l)

-----------------------------------------------------------------------------
(* The next request.  A small map keeps its labels with empty lists.       *)
cleanup_hash_map(map) ==
    IF Cardinality(DOMAIN map) <= LoadFactor THEN [k \in DOMAIN map |-> <<>>] ELSE Nothing

\* the files are removed by a task of their own
content_cleanup == resources' = {} /\ disk' = disk /\ removals' = removals \cup {resources}

request_cleanup ==
    /\ headers' = cleanup_hash_map(headers) /\ cookies' = cleanup_hash_map(cookies) /\ content_cleanup
    /\ given' = [k \in Keys |-> <<>>] /\ crumbs' = given' /\ UNCHANGED <<kind, setcookies, cut>>
response_cleanup ==
    /\ headers' = cleanup_hash_map(headers) /\ setcookies' = <<>> /\ content_cleanup
    /\ given' = [k \in Keys |-> <<>>] /\ crumbs' = given' /\ UNCHANGED <<kind, cookies, cut>>
fetch_cleanup ==
    /\ headers' = cleanup_hash_map(headers) /\ cookies' = cleanup_hash_map(cookies) /\ content_cleanup
    /\ given' = [k \in Keys |-> <<>>] /\ crumbs' = given' /\ UNCHANGED <<kind, setcookies, cut>>

\* connection::reset cleans the request and the response
reset ==
    /\ resets < MaxResets /\ resets' = resets + 1
    /\ \/ kind = "request" /\ request_cleanup
       \/ kind = "response" /\ response_cleanup
       \/ kind = "fetch" /\ fetch_cleanup

-----------------------------------------------------------------------------
(* Cookies of a response; files of a request; the task that removes files. *)
set_cookie ==
    /\ kind = "response" /\ UNCHANGED <<kind, headers, cookies, content, resets, cut, given, crumbs>>
    /\ \E l \in Labels, v \in Values :
          LET at == {i \in DOMAIN setcookies : Key(setcookies[i][1]) = Key(l)}
              first == CHOOSE i \in at : \A j \in at : i <= j
          IN  setcookies' = IF at = {} THEN Append(setcookies, <<l, v>>) ELSE [setcookies EXCEPT ![first] = <<l, v>>]
get_cookie(l) ==
    LET at == {i \in DOMAIN setcookies : Key(setcookies[i][1]) = Key(l)}
    IN  IF at = {} THEN None ELSE setcookies[CHOOSE i \in at : \A j \in at : i <= j][2]

\* the parser meets a cookie of the request
parse_cookie ==
    /\ kind = "request"
    /\ \E l \in Labels, v \in Values :
          /\ Len(At(cookies, l)) < MaxPut
          /\ cookies' = Store(cookies, l, Append(At(cookies, l), v))
          /\ crumbs' = [crumbs EXCEPT ![Key(l)] = Append(@, v)]
    /\ UNCHANGED <<kind, headers, setcookies, content, resets, cut, given>>

upload ==
    /\ kind = "request"
    /\ \E f \in Files \ (disk \cup UNION removals) : disk' = disk \cup {f} /\ resources' = resources \cup {f}
    /\ UNCHANGED <<kind, headers, cookies, setcookies, removals, resets, cut, given, crumbs>>

remove_files ==
    \E paths \in removals :
        /\ removals' = removals \ {paths} /\ disk' = disk \ paths
        /\ UNCHANGED <<kind, headers, cookies, setcookies, resources, resets, cut, given, crumbs>>

-----------------------------------------------------------------------------
(* Ranges: a value of the Range header holds the number before and after   *)
(* its first dash; -1 is a missing number.                                 *)
Missing == -1
get_ranges(items) == SelectSeq(items, LAMBDA r : r[1] # Missing \/ r[2] # Missing)
fetch_get_ranges(items) == SelectSeq(items, LAMBDA r : r[1] # Missing \/ r[2] # Missing)

Smaller(m, n) == IF m < n THEN m ELSE n
get_range(range, length) ==
    IF range[1] = Missing /\ range[2] = Missing THEN <<0, length>>
    ELSE LET suffix == IF range[2] > length THEN 0 ELSE range[2]
             first == IF range[1] = Missing THEN length - suffix ELSE Smaller(range[1], length)
             last == IF range[1] = Missing \/ range[2] = Missing THEN length ELSE Smaller(range[2], length)
         IN  <<Smaller(first, last), last - Smaller(first, last)>>
fetch_get_range(range, length) ==
    LET suffix == IF range[2] > length THEN 0 ELSE range[2]
        first == IF range[1] = Missing THEN length - suffix ELSE Smaller(range[1], length)
        last == IF range[1] = Missing \/ range[2] = Missing THEN length ELSE Smaller(range[2], length)
    IN  IF range[1] = Missing /\ range[2] = Missing THEN <<0, length>>
        ELSE <<Smaller(first, last), last - Smaller(first, last)>>

\* a frame with a Range header is asked for its range
range ==
    /\ kind = "ranged"
    /\ \E a, b \in Numbers, n \in Lengths :
          \E r \in ToSet(get_ranges(<<<<a, b>>, <<Missing, Missing>>>>)) :
              cut' = <<r, n, get_range(r, n), fetch_get_range(r, n)>>
    /\ UNCHANGED <<kind, headers, cookies, setcookies, content, resets, given, crumbs>>

-----------------------------------------------------------------------------
Next ==
    \/ range
    \/ resource_put_header \/ resource_set_header \/ resource_get_header_ranges
    \/ request_put_header \/ request_set_header \/ request_get_header_ranges \/ request_get_cookie_ranges
    \/ response_put_header \/ response_set_header \/ response_get_header_ranges
    \/ fetch_put_header \/ fetch_set_header \/ fetch_get_header_ranges \/ fetch_get_cookie_ranges
    \/ set_cookie \/ parse_cookie \/ upload \/ reset \/ remove_files

\* the scheduler runs every task it was given
Spec == Init /\ [][Next]_vars /\ WF_vars(remove_files)

(***************************************************************************)
(* Properties                                                              *)
(***************************************************************************)

(* Every getter, with any spelling, sees what was given for the label in   *)
(* this request: the last value, and compose_header all of them in order.  *)
(* Nothing of an earlier request is seen, though the map keeps its labels. *)
HeadersSeen ==
    \A l \in Labels :
        LET LastIn(list) == IF list = <<>> THEN None ELSE Last(list)
            all == given[Key(l)]  last == LastIn(all)  crumb == LastIn(crumbs[Key(l)])
        IN
        CASE kind = "resource" -> resource_compose_header(l) = all /\ resource_get_header(l) = last /\ resource_get_header_blob(l) = last
          [] kind = "request" -> request_compose_header(l) = all /\ request_get_header(l) = last /\ request_get_header_blob(l) = last
                                 /\ request_get_cookie(l) = crumb /\ request_get_cookie_blob(l) = crumb
          [] kind = "response" -> response_compose_header(l) = all /\ response_get_header(l) = last /\ response_get_header_blob(l) = last
          [] kind = "fetch" -> fetch_compose_header(l) = all /\ fetch_get_header(l) = last /\ fetch_get_header_blob(l) = last
                               /\ fetch_get_cookie(l) = crumb /\ fetch_get_cookie_blob(l) = crumb
          [] kind = "ranged" -> TRUE

(* A response has one cookie of a name, whatever the spelling, and it is   *)
(* the one get_cookie finds.                                               *)
CookieOnce ==
    \A i, j \in DOMAIN setcookies :
        /\ Key(setcookies[i][1]) = Key(setcookies[j][1]) => i = j
        /\ get_cookie(setcookies[i][1]) = setcookies[i][2]

(* Whatever a Range header says, the range that is sent lies inside of the *)
(* content, and the server and the client read it alike.                   *)
RangesInside ==
    cut # <<>> => LET n == cut[2]  sent == cut[3] IN
                  /\ sent[1] >= 0 /\ sent[2] >= 0 /\ sent[1] + sent[2] <= n
                  /\ sent = cut[4] /\ fetch_get_ranges(<<cut[1]>>) = <<cut[1]>>

(* A file that was uploaded is removed after the request it came with.     *)
Leftover == disk \ resources
=============================================================================
