------------------------------ MODULE ChatCall ------------------------------
(***************************************************************************)
(* internal/client ActiveChatWithResult, called by service.ActiveChat: one *)
(* chat of an international account.  Each attempt registers a new         *)
(* conversation, sends the chat, judges the streamed answer line by line   *)
(* and reports the chat; an attempt that finds the token dead is repeated  *)
(* once with a new one.  A line stands for what the judge tells apart in   *)
(* it: an end of event, an event name, or a data line by its JSON content. *)
(***************************************************************************)
EXTENDS Naturals, Sequences

CONSTANT MaxLines  \* bound: lines of one streamed answer

ASSUME LinesAssumption == MaxLines \in Nat \ {0}

(* Data lines: a packet with an answer, one without, an error whose code   *)
(* means a dead token, any other error, no JSON, the end mark, the two     *)
(* halves of an answer sent as two lines, and an empty line.               *)
Whole     == {"answer", "mute", "dead", "refused", "junk", "done"}
DataLines == Whole \cup {"head", "tail", "void"}
Names     == {"event: error", "event: other"}
LineKinds == DataLines \cup Names \cup {"blank", "noise"}

Failures  == {"dead", "refused", "protocol", "transport"}

VARIABLES attempt,      \* 1, or 2 after a refresh
          at,           \* the next request of the attempt
          conv,         \* convID
          unregistered, \* conversationWarning # nil
          lines,        \* history: the lines of the answer judged so far
          eventName, dataLines, sawAnswer, \* of validateActiveChatResponse
          verdict,      \* how the call ended
          warnings,     \* ActiveChatResult
          chats,        \* history: the conversations chats were sent in
          unknown,      \* history: attempts whose registration failed
          reported      \* history: conversations that were reported

judge    == <<lines, eventName, dataLines, sawAnswer>>
chatVars == <<attempt, at, conv, unregistered, judge, verdict, warnings,
              chats, unknown, reported>>

Local(n)  == <<"local", n>>     \* sessionID := newUUID(), one per attempt
Server(n) == <<"server", n>>    \* the ID that the service gave it

ChatTypeOK ==
  /\ attempt \in 1 .. 2
  /\ at \in {"register", "chat", "stream", "report", "refresh", "over"}
  /\ conv \in {Local(n) : n \in 1 .. 2} \cup {Server(n) : n \in 1 .. 2}
  /\ unregistered \in BOOLEAN
  /\ lines \in Seq(LineKinds) /\ Len(lines) <= MaxLines
  /\ eventName \in Names \cup {"none"}
  /\ dataLines \in Seq(DataLines)
  /\ sawAnswer \in BOOLEAN
  /\ verdict \in Failures \cup {"none", "answered"}
  /\ warnings \subseteq {"report", "conversation"}
  /\ chats \in Seq({Local(1), Local(2), Server(1), Server(2)})
  /\ unknown \subseteq 1 .. 2
  /\ reported \subseteq {Local(1), Local(2), Server(1), Server(2)}

Silence == lines = <<>> /\ eventName = "none" /\ dataLines = <<>> /\ sawAnswer = FALSE

ChatInit ==
  /\ attempt = 1
  /\ at = "register"
  /\ conv = Local(1)
  /\ unregistered = FALSE
  /\ Silence
  /\ verdict = "none"
  /\ warnings = {}
  /\ chats = <<>>
  /\ unknown = {}
  /\ reported = {}

-----------------------------------------------------------------------------
(* Mutated Registered: the session of the first attempt is kept.           *)
RegisteredOnce(c) ==
  conv' = IF attempt = 1 THEN c ELSE conv

Registered(c) == conv' = c

(* CreateConversation: the service may answer without an ID of its own.    *)
Register ==
  /\ at = "register"
  /\ \E c \in {Local(attempt), Server(attempt)} : Registered(c)
  /\ unregistered' = FALSE
  /\ at' = "chat"
  /\ UNCHANGED <<attempt, judge, verdict, warnings, chats, unknown, reported>>

(* Any error of the registration is only a warning.                        *)
RegisterFails ==
  /\ at = "register"
  /\ Registered(Local(attempt))
  /\ unregistered' = TRUE
  /\ unknown' = unknown \cup {attempt}
  /\ at' = "chat"
  /\ UNCHANGED <<attempt, judge, verdict, warnings, chats, reported>>

(* ActiveChat repeats the call once, and only for a dead token.            *)
FailWith(kind) ==
  /\ IF kind = "dead" /\ attempt = 1
       THEN at' = "refresh" /\ UNCHANGED verdict
       ELSE at' = "over" /\ verdict' = kind
  /\ UNCHANGED <<attempt, conv, unregistered, warnings, unknown, reported>>

(* c.HTTP.Do answered 2xx and the body was read.                           *)
ChatAnswered ==
  /\ at = "chat"
  /\ chats' = Append(chats, conv)
  /\ at' = "stream"
  /\ UNCHANGED <<attempt, conv, unregistered, judge, verdict, warnings, unknown, reported>>

(* No answer, a refusal by status or envelope, or a body too large or lost *)
(* on the way: the service may have served the chat all the same.          *)
ChatFails ==
  /\ at = "chat"
  /\ chats' = Append(chats, conv)
  /\ \E kind \in Failures : FailWith(kind)
  /\ UNCHANGED judge

-----------------------------------------------------------------------------
(* The data lines of one event are joined and trimmed, then parsed.        *)
Packet(data) ==
  LET parts == {i \in DOMAIN data : data[i] # "void"}
  IN  CASE \E i \in parts : parts = {i} /\ data[i] \in Whole -> data[CHOOSE i \in parts : TRUE]
        [] \E i, j \in parts :
             parts = {i, j} /\ i < j /\ data[i] = "head" /\ data[j] = "tail" -> "answer"
        [] OTHER -> "junk"

(* What checkEvent makes of an event.                                      *)
CheckEvent(name, data) ==
  LET packet == Packet(data)
  IN  CASE data = <<>> \/ packet = "done"  -> "skipped"
        [] data # <<>> /\ packet = "junk"  -> "protocol"
        [] packet \in {"dead", "refused"}  -> packet
        [] packet \in {"answer", "mute"}   ->
             IF name = "event: error" THEN "refused"
             ELSE IF packet = "answer" THEN "answer" ELSE "skipped"

(* Mutated EndEvent: the event's name stays for the next event.            *)
EndEventKeepsName ==
  LET found == CheckEvent(eventName, dataLines)
  IN  /\ dataLines' = <<>> /\ UNCHANGED eventName
      /\ sawAnswer' = (sawAnswer \/ found = "answer")
      /\ IF found \in Failures THEN FailWith(found) ELSE
           UNCHANGED <<attempt, at, conv, unregistered, verdict, warnings, unknown, reported>>

(* An empty line: checkEvent, and return its error.                        *)
EndEvent ==
  LET found == CheckEvent(eventName, dataLines)
  IN  /\ dataLines' = <<>> /\ eventName' = "none"
      /\ sawAnswer' = (sawAnswer \/ found = "answer")
      /\ IF found \in Failures THEN FailWith(found) ELSE
           UNCHANGED <<attempt, at, conv, unregistered, verdict, warnings, unknown, reported>>

Read(line) ==
  /\ at = "stream"
  /\ Len(lines) < MaxLines
  /\ lines' = Append(lines, line)
  /\ IF line = "blank" THEN EndEvent
     ELSE /\ eventName' = IF line \in Names THEN line ELSE eventName
          /\ dataLines' = IF line \in DataLines THEN Append(dataLines, line) ELSE dataLines
          /\ UNCHANGED <<attempt, at, conv, unregistered, sawAnswer, verdict, warnings, unknown, reported>>
  /\ UNCHANGED chats

(* The body has been judged: found is what its last event was.             *)
Conclude(found) ==
  /\ CASE found \in Failures -> FailWith(found)
       [] found \notin Failures /\ (sawAnswer \/ found = "answer") ->
            /\ at' = "report"
            /\ verdict' = "answered"
            /\ UNCHANGED <<attempt, conv, unregistered, warnings, unknown, reported>>
       [] found \notin Failures /\ ~(sawAnswer \/ found = "answer") -> FailWith("protocol")
  /\ UNCHANGED <<eventName, dataLines, sawAnswer, chats>>

(* Mutated LastEvent: an event that no empty line ends is dropped.         *)
LastEventDropped == "skipped"

LastEvent == CheckEvent(eventName, dataLines)

(* The end of a body with lines of an event stream (hasSSE).               *)
EndOfStream ==
  /\ at = "stream"
  /\ \E i \in DOMAIN lines : lines[i] \in DataLines \cup Names
  /\ Conclude(LastEvent)
  /\ UNCHANGED lines

(* A body without them is one packet, or nothing.                          *)
PlainBody ==
  /\ at = "stream" /\ lines = <<>>
  /\ \E body \in Whole \cup {"void"} :
       /\ lines' = <<body>>
       /\ Conclude(IF body = "void" THEN "skipped" ELSE CheckEvent("none", <<body>>))

-----------------------------------------------------------------------------
(* Mutated Warnings: only the first attempt's registration counts.         *)
WarningsOfFirst(failed) ==
  (IF failed THEN {"report"} ELSE {}) \cup (IF 1 \in unknown THEN {"conversation"} ELSE {})

Warnings(failed) ==
  (IF failed THEN {"report"} ELSE {}) \cup (IF unregistered THEN {"conversation"} ELSE {})

(* reportChatEvent: a failed report does not undo the chat.                *)
Report ==
  /\ at = "report"
  /\ \E failed \in BOOLEAN : warnings' = Warnings(failed)
  /\ reported' = reported \cup {conv}
  /\ at' = "over"
  /\ UNCHANGED <<attempt, conv, unregistered, judge, verdict, chats, unknown>>

(* refreshAccount gave a new token: the whole call is made again.          *)
Refreshed ==
  /\ at = "refresh"
  /\ attempt' = 2
  /\ at' = "register"
  /\ unregistered' = FALSE
  /\ lines' = <<>> /\ eventName' = "none" /\ dataLines' = <<>> /\ sawAnswer' = FALSE
  /\ UNCHANGED <<conv, verdict, warnings, chats, unknown, reported>>

RefreshFails ==
  /\ at = "refresh"
  /\ at' = "over"
  /\ \E kind \in Failures : verdict' = kind
  /\ UNCHANGED <<attempt, conv, unregistered, judge, warnings, chats, unknown, reported>>

ChatNext ==
  \/ Register \/ RegisterFails \/ ChatAnswered \/ ChatFails
  \/ \E line \in LineKinds : Read(line)
  \/ EndOfStream \/ PlainBody \/ Report \/ Refreshed \/ RefreshFails

ChatSpec == ChatInit /\ [][ChatNext]_chatVars

-----------------------------------------------------------------------------
(* Lines i and j belong to one event.                                      *)
SameEvent(i, j) ==
  \A k \in DOMAIN lines : lines[k] = "blank" => (k < i <=> k < j)

(* An answer of whole packets only, one in an event and none of them in an *)
(* event that is named an error.                                           *)
Regular ==
  /\ \A i \in DOMAIN lines : lines[i] \notin {"head", "tail", "void"}
  /\ \A i, j \in DOMAIN lines :
       i # j /\ SameEvent(i, j) /\ lines[i] \in Whole =>
         lines[j] \notin Whole \cup {"event: error"}

Answered == \E i \in DOMAIN lines : lines[i] = "answer"
Split    == \E i, j \in DOMAIN lines : i < j /\ lines[i] = "head" /\ lines[j] = "tail"
Troubled == \E i \in DOMAIN lines : lines[i] \in {"dead", "refused", "junk"}

(* A chat counts as answered only if the stream carries an answer and no   *)
(* error anywhere, not after the answer nor in its last, unended event     *)
(* either; and every well-formed stream with an answer and no error counts,*)
(* however its events are named and ended (validateActiveChatResponse).    *)
ChatJudged ==
  /\ verdict = "answered" => (Answered \/ Split) /\ ~Troubled
  /\ at \in {"report", "over"} /\ lines # <<>> /\ Regular =>
       (verdict = "answered" <=> Answered /\ ~Troubled)

(* No chat is sent in a conversation of an earlier attempt; what is        *)
(* reported is the conversation of the answered chat and nothing else; and *)
(* the warning about a registration is about that same conversation        *)
(* (ActiveChatWithResult, "never reuse an earlier session").               *)
ChatOwnConversation ==
  /\ \A i, j \in DOMAIN chats : chats[i] = chats[j] => i = j
  /\ \A c \in reported : verdict = "answered" /\ c = chats[Len(chats)]
  /\ at = "over" /\ verdict = "answered" =>
       /\ reported # {}
       /\ "conversation" \in warnings <=> attempt \in unknown
=============================================================================
