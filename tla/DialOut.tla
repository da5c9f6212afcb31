------------------------------ MODULE DialOut -------------------------------
(***************************************************************************)
(* internal/client dialling and internal/store dns.conf: which resolvers a *)
(* connection asks for a host and which addresses it tries.  The domestic  *)
(* link asks the fixed servers only (fixedDNSDialer), every other link the *)
(* system first and the fixed servers after it (fallbackResolver).  One    *)
(* action is one lookup or one attempt to connect; what a resolver answers *)
(* is open each time, what can be reached stays.                           *)
(***************************************************************************)
EXTENDS Naturals, Sequences

CONSTANTS Addresses,  \* of the host that is dialled
          AddressLists, \* bound: what a lookup may bring back, an empty list if
                        \* it fails or nothing comes in its four seconds
          DnsServers, \* servers that dns.conf may name
          DefaultDNS, \* defaultDNS
          DnsFiles    \* bound: contents that dns.conf is found with

System  == "system"   \* the system's resolver, and the line that asks for it
Comment == "comment"  \* a line that is empty or begins with #
NoFile  == <<"no file">>

(* The servers that a file names, in their order.                          *)
Named(file) ==
  LET N[n \in 0 .. Len(file)] ==
        IF n = 0 THEN <<>>
        ELSE IF file[n] \in DnsServers THEN Append(N[n - 1], file[n]) ELSE N[n - 1]
  IN  N[Len(file)]

Elements(s) == {s[i] : i \in DOMAIN s}

ASSUME DnsAssumption ==
  /\ {System, Comment, NoFile[1]} \cap DnsServers = {}
  /\ DefaultDNS \in Seq(DnsServers) /\ DefaultDNS # <<>>
  /\ AddressLists \subseteq Seq(Addresses)
  /\ DnsFiles \subseteq Seq(DnsServers \cup {System, Comment}) \cup {NoFile}

VARIABLES dnsConf,   \* dns.conf
          activeDNS, \* the servers in use, none for the system's resolver
          link,      \* "domestic" or "fallback"
          reachable, \* the addresses that accept a connection
          step,      \* what the dial does next, or how it ended
          servers,   \* the servers a lookup has still to ask
          ips,       \* the addresses still to be tried
          again,     \* the fixed servers were asked after the addresses failed
          asked,     \* history: resolvers asked during this dial
          answered,  \* history: those that gave an address
          offered    \* history: the addresses they gave

dialled == <<link, reachable, step, servers, ips, again, asked, answered, offered>>
dialVars == <<dnsConf, activeDNS, dialled>>

Ended == {"connected", "failed", "expired"}

DialTypeOK ==
  /\ dnsConf \in Seq(DnsServers \cup {System, Comment}) \cup {NoFile}
  /\ activeDNS \in Seq(DnsServers)
  /\ link \in {"domestic", "fallback"}
  /\ reachable \subseteq Addresses
  /\ step \in {"off", "idle", "system", "lookup", "connect"} \cup Ended
  /\ servers \in Seq(DnsServers)
  /\ ips \in Seq(Addresses)
  /\ again \in BOOLEAN
  /\ asked \subseteq DnsServers \cup {System}
  /\ answered \subseteq asked
  /\ offered \subseteq Addresses

DialInit ==
  /\ dnsConf \in DnsFiles
  /\ activeDNS = DefaultDNS
  /\ link = "domestic" /\ reachable \in SUBSET Addresses
  /\ step = "off"
  /\ servers = <<>> /\ ips = <<>> /\ again = FALSE
  /\ asked = {} /\ answered = {} /\ offered = {}

-----------------------------------------------------------------------------
(* LoadDNSConfWithPresence and what New makes of it: a file that names no  *)
(* server counts like one that says "system".                              *)
Loaded(file) ==
  IF file = NoFile THEN DefaultDNS
  ELSE IF System \in Elements(file) THEN <<>> ELSE Named(file)

(* SaveDNSConf of the servers that New chose for a missing file.           *)
Saved(list) == <<Comment>> \o (IF list = <<>> THEN <<System>> ELSE list)

(* service.New, in a process started for the first time or again.          *)
UseDnsConf ==
  /\ step \in {"off"} \cup Ended
  /\ activeDNS' = Loaded(dnsConf)
  /\ dnsConf' = IF dnsConf = NoFile THEN Saved(activeDNS') ELSE dnsConf
  /\ step' = "idle"
  /\ asked' = {} /\ answered' = {} /\ offered' = {}
  /\ UNCHANGED <<link, reachable, servers, ips, again>>

(* Mutated Dial: the domestic link dials like every other one.             *)
DialSystemFirst(how) ==
  /\ step = "idle"
  /\ link' = how
  /\ step' = "system" /\ servers' = <<>>
  /\ again' = FALSE
  /\ ips' = <<>>
  /\ UNCHANGED <<dnsConf, activeDNS, reachable, asked, answered, offered>>

(* DialContext for a host that is no literal address.                      *)
Dial(how) ==
  /\ step = "idle"
  /\ link' = how
  /\ IF how = "domestic" /\ activeDNS # <<>>
       THEN step' = "lookup" /\ servers' = activeDNS
       ELSE step' = "system" /\ servers' = <<>>
  /\ again' = (how = "domestic")
  /\ ips' = <<>>
  /\ UNCHANGED <<dnsConf, activeDNS, reachable, asked, answered, offered>>

Heard(resolver, list) ==
  /\ asked' = asked \cup {resolver}
  /\ answered' = IF list = <<>> THEN answered ELSE answered \cup {resolver}
  /\ offered' = offered \cup Elements(list)
  /\ UNCHANGED <<dnsConf, activeDNS, link, reachable>>

(* The system's resolver; without an answer the fixed servers are next.    *)
AskSystem ==
  /\ step = "system"
  /\ \E list \in AddressLists :
       /\ Heard(System, list)
       /\ ips' = list
       /\ CASE list # <<>>                          -> step' = "connect" /\ UNCHANGED servers
            [] list = <<>> /\ activeDNS # <<>>      -> step' = "lookup" /\ servers' = activeDNS
            [] list = <<>> /\ activeDNS = <<>>      -> step' = "failed" /\ UNCHANGED servers
  /\ UNCHANGED again

(* lookupWithDNSServers: the first server that gives an address is heard.  *)
AskServer ==
  /\ step = "lookup"
  /\ \E list \in AddressLists :
       /\ Heard(Head(servers), list)
       /\ ips' = list
       /\ IF list # <<>> THEN step' = "connect" /\ servers' = <<>>
          ELSE /\ servers' = Tail(servers)
               /\ step' = IF Tail(servers) = <<>> THEN "failed" ELSE "lookup"
  /\ UNCHANGED again

Connect ==
  /\ step = "connect"
  /\ Head(ips) \in reachable
  /\ step' = "connected"
  /\ UNCHANGED <<dnsConf, activeDNS, link, reachable, servers, ips, again, asked, answered, offered>>

(* Mutated Exhausted: no address left is the end.                          *)
ExhaustedEnds == step' = "failed" /\ UNCHANGED <<servers, again>>

(* No address is left: the fallback asks the fixed servers, once more if   *)
(* it has asked them already, and tries what they give.                    *)
Exhausted ==
  IF again \/ activeDNS = <<>>
    THEN step' = "failed" /\ UNCHANGED <<servers, again>>
    ELSE step' = "lookup" /\ servers' = activeDNS /\ again' = TRUE

ConnectFails ==
  /\ step = "connect"
  /\ Head(ips) \notin reachable
  /\ ips' = Tail(ips)
  /\ IF Tail(ips) = <<>> THEN Exhausted ELSE UNCHANGED <<step, servers, again>>
  /\ UNCHANGED <<dnsConf, activeDNS, link, reachable, asked, answered, offered>>

(* The client gives the request up after its thirty seconds.               *)
Expire ==
  /\ step \in {"system", "lookup", "connect"}
  /\ step' = "expired"
  /\ UNCHANGED <<dnsConf, activeDNS, link, reachable, servers, ips, again, asked, answered, offered>>

DialNext ==
  \/ UseDnsConf \/ \E how \in {"domestic", "fallback"} : Dial(how)
  \/ AskSystem \/ AskServer \/ Connect \/ ConnectFails \/ Expire

DialSpec == DialInit /\ [][DialNext]_dialVars

-----------------------------------------------------------------------------
(* A dial that is not cut short fails only if no address that any resolver *)
(* gave can be reached, and not before the fixed servers were heard or all *)
(* of them were silent: a system resolver that gives dead addresses does   *)
(* not keep the fixed servers out (fallbackResolver.DialContext).          *)
FailsForCause ==
  step = "failed" =>
    /\ offered \cap reachable = {}
    /\ activeDNS # <<>> =>
         answered \cap Elements(activeDNS) # {} \/ Elements(activeDNS) \subseteq asked

(* The domestic link asks only the servers of dns.conf, and the system's   *)
(* resolver only if that file says so or names no server; a directory      *)
(* without the file gets one that the next start reads alike.              *)
DomesticStaysFixed ==
  link = "domestic" /\ step \notin {"off", "idle"} =>
    /\ asked \ {System} \subseteq Elements(Named(dnsConf))
    /\ System \in asked => System \in Elements(dnsConf) \/ Named(dnsConf) = <<>>
    /\ activeDNS = Loaded(dnsConf)

(* Both: every resolver that should be asked is asked before a dial fails, *)
(* and on the domestic link none that should not.                          *)
AsksAsConfigured == FailsForCause /\ DomesticStaysFixed
=============================================================================
