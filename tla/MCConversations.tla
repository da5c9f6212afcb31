-------------------------- MODULE MCConversations ---------------------------
(***************************************************************************)
(* Four conversations: the client's points query and its chat with the     *)
(* services, its dialling of a connection, and the page's login dialog     *)
(* with the server.  They are specifications of their own; TLC explores    *)
(* one of them at a time, the others rest.                                 *)
(***************************************************************************)
EXTENDS PointsQuery, ChatCall, DialOut, LoginDialog

CONSTANTS n1, n2  \* two servers of dns.conf

(* Packages enough to exceed two pages of two, with figures that agree,    *)
(* that contradict each other and that are off limits.                     *)
Fig(cr, cu, cs, r, u, s) ==
  [cycleRemain |-> cr, cycleUsed |-> cu, cycleSize |-> cs, remain |-> r, used |-> u, size |-> s]
SomeFigures == <<Fig(2, 0, 3, 0, 0, 0), Fig(2, 3, 4, 0, 0, 0), Fig(-1, 0, 2, 0, 0, 0),
                 Fig(0, 0, 0, 5, 0, 3), Fig(0, 5, 3, 0, 0, 0)>>

TwoServers == <<n1, n2>>

(* Every answer of up to two addresses, the same one twice included.       *)
ShortLists == UNION {[1 .. n -> Addresses] : n \in 0 .. 2}

(* Every dns.conf of up to two lines, and none.                            *)
ShortFiles ==
  UNION {[1 .. n -> {n1, n2, System, Comment}] : n \in 0 .. 2} \cup {NoFile}

VARIABLE part

allVars == <<vars, chatVars, dialVars, dialogVars, part>>

(* A part that rests has one state.                                        *)
PointsRest == present = {} /\ cap = PageSize /\ Init
ChatRests  == ChatInit
DialRests  == dnsConf = NoFile /\ reachable = {} /\ DialInit

PartsInit ==
  \/ part = "points" /\ ChatRests /\ DialRests /\ DialogInit /\ Init
  \/ part = "chat" /\ PointsRest /\ DialRests /\ DialogInit /\ ChatInit
  \/ part = "dial" /\ PointsRest /\ ChatRests /\ DialogInit /\ DialInit
  \/ part = "dialog" /\ PointsRest /\ ChatRests /\ DialRests /\ DialogInit

PartsNext ==
  \/ part = "points" /\ Next
     /\ UNCHANGED <<chatVars, dialVars, dialogVars, part>>
  \/ part = "chat" /\ ChatNext
     /\ UNCHANGED <<vars, dialVars, dialogVars, part>>
  \/ part = "dial" /\ DialNext
     /\ UNCHANGED <<vars, chatVars, dialogVars, part>>
  \/ part = "dialog" /\ DialogNext
     /\ UNCHANGED <<vars, chatVars, dialVars, part>>

PartsSpec == PartsInit /\ [][PartsNext]_allVars /\ DialogFairness
=============================================================================
