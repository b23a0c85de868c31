--------------------------- MODULE PublicIngress ---------------------------
(***************************************************************************)
(* The public HTTPS listener (CommandHttpsTransport): the certificate it    *)
(* starts with, and whose request an arriving request is taken for.  A      *)
(* client sends its request itself, or through a proxy that sets some of    *)
(* the forwarding headers and hands on the others as the client sent them.  *)
(* An address is the host it stands for and how it is written; a header is  *)
(* absent (None), empty, a list, or one value.                              *)
(***************************************************************************)
EXTENDS Integers, FiniteSets, Optional

CONSTANTS
  Client,      \* hosts of clients
  Proxy,       \* hosts of proxies
  Trusted,     \* trustedProxies
  Allowed,     \* allowedHosts
  Materials,   \* certificates and keys that may be configured
  Spelling,    \* how an address may be written
  Sets,        \* sets of headers a proxy may set itself
  Sources,     \* what a client may send in a header of an address
  Forwards,    \* what a client may send as Forwarded
  Hosts,       \* what may be sent as a host
  List,        \* a header with a comma
  Empty        \* a header with no text

(* No client is itself a trusted proxy, proxies write addresses plainly, and *)
(* the marks of a header are none of the values it may have.                 *)
IngressAssumption ==
  /\ Client \cap Trusted = {}
  /\ Spelling \subseteq {"plain", "quoted", "short", "upper", "mapped"}
  /\ None # Empty /\ None # List /\ Empty # List /\ {None, Empty, List} \cap {"http", "https"} = {}
  /\ \A x \in Client \cup Proxy : <<"address", x>> # None
  /\ \A c \in Client, s \in Spelling :
       LET own == [of |-> c, spelling |-> s] IN
       /\ own \notin {None, Empty, List}
       /\ [for |-> own, proto |-> "https", host |-> None, wellFormed |-> TRUE] \notin {None, Empty, List}

VARIABLES
  server,    \* the listener
  material,  \* the certificate and key it was given
  last       \* the request answered; each is answered for itself
listenerVars == <<server, material, last>>

ListenerInit == server = "starting" /\ material \in Materials /\ last = None

---------------------------------------------------------------------------
(* The start: a certificate that is not valid now, does not belong to the    *)
(* key or does not name every allowed host, or a key others may read, stops  *)
(* it.                                                                       *)
loadAndValidateTlsMaterial(m) ==
  /\ m.readable /\ m.validNow /\ m.keyMatches
  /\ \A h \in Allowed : h \in m.names
  /\ m.keyIsFile /\ m.keyPrivate /\ m.minimumVersion
create ==
  /\ server = "starting"
  /\ server' = IF loadAndValidateTlsMaterial(material) THEN "listening" ELSE "refused"
  /\ UNCHANGED <<material, last>>

---------------------------------------------------------------------------
(* An IPv4 address inside an IPv6 one is found again if it is written with   *)
(* dots behind ::ffff: alone; of one behind another prefix the groups are    *)
(* read up to the first dot.                                                 *)
IsIP(a) == a.spelling # "name"
normalizeAddress(a) ==
  CASE a.spelling \in {"plain", "quoted", "short", "upper", "mapped"} -> <<"address", a.of>>
    [] a.spelling = "mapped in hex" -> <<"hex", a.of>>
    [] a.spelling = "dotted tail" -> <<"tail", "prefix">>
    [] OTHER -> <<"text", a.of>>

singleHeader(v) == IF v \in {None, Empty} THEN None ELSE v
singleHop(v) == v # List
normalizedHost(h) == IF h \in {None, Empty, List} \/ ~h.sound THEN None ELSE h.name
AllowedHost(h) == normalizedHost(h) # None /\ normalizedHost(h) \in Allowed

ValidSource(v) == singleHeader(v) = None \/ (singleHop(v) /\ IsIP(v))
validStandardForwarded(v) ==
  /\ singleHop(v) /\ v.wellFormed
  /\ v.for # None /\ IsIP(v.for) /\ v.proto = "https"
  /\ v.host # None => AllowedHost(v.host)
SourcesOf(h) ==
  {normalizeAddress(v) : v \in {singleHeader(h.forwardedFor), singleHeader(h.realIp)} \ {None}} \cup
  (IF singleHeader(h.forwarded) = None THEN {} ELSE {normalizeAddress(h.forwarded.for)})
(* Broken: sources that disagree are taken.                                  *)
validForwardingOfEach(h) ==
  /\ singleHeader(h.proto) \in {None, "https"}
  /\ ValidSource(h.forwardedFor) /\ ValidSource(h.realIp)
  /\ singleHeader(h.host) # None => AllowedHost(h.host)
  /\ singleHeader(h.forwarded) # None => validStandardForwarded(h.forwarded)
validForwarding(h) ==
  /\ singleHeader(h.proto) \in {None, "https"}
  /\ ValidSource(h.forwardedFor) /\ ValidSource(h.realIp)
  /\ singleHeader(h.host) # None => AllowedHost(h.host)
  /\ singleHeader(h.forwarded) # None => validStandardForwarded(h.forwarded)
  /\ Cardinality(SourcesOf(h)) <= 1
forwardedClientSource(h) ==
  IF singleHeader(h.forwardedFor) # None THEN normalizeAddress(h.forwardedFor)
  ELSE IF singleHeader(h.forwarded) # None THEN normalizeAddress(h.forwarded.for)
  ELSE IF singleHeader(h.realIp) # None THEN normalizeAddress(h.realIp) ELSE None

TrustedRemote(remote) == normalizeAddress(remote) \in {<<"address", p>> : p \in Trusted}

forwardingHeaders(h) == {name \in DOMAIN h : h[name] # None}
Admitted(request) ==
  LET h == request.headers IN
  IF ~request.encrypted THEN [ok |-> FALSE, code |-> "HTTPS_REQUIRED"]
  ELSE IF ~AllowedHost(request.host) THEN [ok |-> FALSE, code |-> "UNTRUSTED_HOST"]
  ELSE IF forwardingHeaders(h) = {} THEN [ok |-> TRUE, source |-> normalizeAddress(request.remote)]
  ELSE IF ~TrustedRemote(request.remote) \/ ~validForwarding(h)
  THEN [ok |-> FALSE, code |-> "UNTRUSTED_FORWARDING"]
  ELSE [ok |-> TRUE, source |-> IF forwardedClientSource(h) = None THEN normalizeAddress(request.remote)
                                ELSE forwardedClientSource(h)]
Arrives(client, via, named, request) ==
  /\ last' = [client |-> client, via |-> via, named |-> named, request |-> request,
              answer |-> Admitted(request)]
  /\ UNCHANGED <<server, material>>

---------------------------------------------------------------------------
Header ==
  [forwardedFor : Sources, realIp : Sources, forwarded : Forwards,
   proto : {None, "http", "https"}, host : {None} \cup Hosts]
Direct(c, h, host) ==
  \E encrypted \in BOOLEAN, s \in {"plain", "mapped"} :
    Arrives(c, None, TRUE, [encrypted |-> encrypted, remote |-> [of |-> c, spelling |-> s],
                            host |-> host, headers |-> h])
(* What a proxy sets of its own is the client's address, and https.  One     *)
(* that appends makes a list of what the client sent and that.               *)
ProxySets(c, h, set, s) ==
  LET own == [of |-> c, spelling |-> s]
      Joined(v) == IF "append" \in set /\ v # None THEN List ELSE own IN
  [h EXCEPT !.forwardedFor = IF "forwardedFor" \in set THEN Joined(@) ELSE @,
            !.realIp = IF "realIp" \in set THEN own ELSE @,
            !.forwarded = IF "forwarded" \notin set THEN @
                          ELSE IF "append" \in set /\ @ # None THEN List
                          ELSE [for |-> own, proto |-> "https", host |-> None, wellFormed |-> TRUE],
            !.proto = IF "proto" \in set THEN "https" ELSE @]
Proxied(c, p, h, host, set, s) ==
  Arrives(c, p, set \cap {"forwardedFor", "realIp", "forwarded"} # {},
          [encrypted |-> TRUE, remote |-> [of |-> p, spelling |-> "mapped"], host |-> host,
           headers |-> ProxySets(c, h, set, s)])

ListenerNext ==
  \/ create
  \/ /\ server = "listening" /\ last = None
     /\ \E c \in Client, h \in Header, host \in Hosts :
          \/ Direct(c, h, host)
          \/ \E p \in Proxy, set \in Sets, s \in Spelling : Proxied(c, p, h, host, set, s)
ListenerSpec == ListenerInit /\ [][ListenerNext]_listenerVars

---------------------------------------------------------------------------
(* The listener is in one of its states and a request is answered either way.*)
ListenerTypeOK ==
  /\ server \in {"starting", "listening", "refused"} /\ material \in Materials
  /\ last # None =>
       IF last.answer.ok THEN last.answer.source # None
       ELSE last.answer.code \in {"HTTPS_REQUIRED", "UNTRUSTED_HOST", "UNTRUSTED_FORWARDING"}

Passed == last # None /\ last.answer.ok

(* A request is counted for its client: the network source of an admitted    *)
(* request is the address of the client that made it, whatever forwarding    *)
(* headers the client sends itself and whichever of them the trusted proxy   *)
(* sets or hands on, as long as the proxy sets one that names the client.    *)
SourceTrue == Passed /\ last.named => last.answer.source = <<"address", last.client>>

(* An admitted request came over TLS with a certificate that names the host  *)
(* it was sent to and every host it says it was forwarded for.               *)
HostsCovered ==
  Passed =>
    /\ last.request.encrypted /\ material.validNow /\ material.keyPrivate
    /\ normalizedHost(last.request.host) \in material.names
    /\ LET host == last.request.headers.host IN
       singleHeader(host) # None => normalizedHost(host) \in material.names

(* A request that passed a hop which is not trusted, more than one hop, or a *)
(* hop without TLS, is never admitted.                                       *)
ForwardingConsistent ==
  Passed /\ forwardingHeaders(last.request.headers) # {} =>
    /\ last.via \in Trusted
    /\ last.request.headers.proto # "http"
    /\ \A name \in DOMAIN last.request.headers : last.request.headers[name] # List

(* Whatever certificate the process is given and whatever headers a client   *)
(* and its proxies send: every allowed host is covered by the certificate,   *)
(* forwarding headers agree, and the source is the client's own address.     *)
IngressSound == ListenerTypeOK /\ HostsCovered /\ ForwardingConsistent /\ SourceTrue

=============================================================================
