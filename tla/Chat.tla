-------------------------------- MODULE Chat --------------------------------
(***************************************************************************)
(* One chat account: a room on the Matrix homeserver and the encrypted     *)
(* cache the suite keeps of it.                                            *)
(*                                                                         *)
(* - Three kinds of loop read the stored token, ask /sync for what is new, *)
(*   and apply the answer to the cache (sync.py): the event stream of each *)
(*   open tab (stream.py), sync_now (controllers/api.py), and the worker   *)
(*   that rings the devices of users without a tab (chat_push.py).         *)
(* - Requests act on the homeserver first and on the cache when its answer *)
(*   is there (controllers/api.py, calls.py, and their REST and MCP twins).*)
(*                                                                         *)
(* Greenlets switch only at HTTP: a batch is applied in one step, or in    *)
(* part when the database is locked by the MCP process or the web process  *)
(* dies.  The room is a direct chat; positions of its timeline stand for   *)
(* event ids and tokens.  An answer holds the last Window events of the    *)
(* room; what it leaves out nothing asks for later.                        *)
(*                                                                         *)
(* A definition named Slip... is the definition after it with one mistake. *)
(***************************************************************************)
EXTENDS Integers, Sequences, FiniteSets, FiniteSetsExt

CONSTANTS
  Tabs,       \* chat tabs, each with its event stream
  Now,        \* the loop of sync_now
  Worker,     \* the loop of the push worker
  Window,     \* how many events the homeserver puts into an answer
  MaxEvents,  \* the bound on the timeline
  None

ASSUME ChatAssumption ==
  /\ MaxEvents \in Nat /\ Window \in Nat \ {0}
  /\ Now \notin Tabs /\ Worker \notin Tabs \union {Now}
  /\ None \notin {"invite", "join", "leave"}

Loops == Tabs \union {Now, Worker}
Positions == 1..MaxEvents

VARIABLES
  line,    \* the room on the homeserver: what happened in it, in order
  room,    \* membership in chat_rooms, None without a row
  cut,     \* positions an answer that was applied left out
  row,     \* position |-> its row in chat_messages or chat_call_events
  token,   \* since_token
  logged,  \* chat_push_log
  loop,    \* loop |-> where it is, the token it sent, the token of the answer
  todo,    \* the worker's intents: the positions of each, and whether it was sent
  req      \* a request whose answer is on its way

cacheVars == <<room, cut, row, token, logged>>
vars == <<line, room, cut, row, token, logged, loop, todo, req>>

----------------------------------------------------------------------------
(* The homeserver *)

Event(kind, by, of) == [kind |-> kind, by |-> by, of |-> of]
Grows(e) == Len(line) < MaxEvents /\ line' = Append(line, e)

Moves == {"invite", "join", "leave"}
MoveTo(b) == {p \in 1..b : line[p].kind \in Moves}
Mine(b) == IF MoveTo(b) = {} THEN None ELSE line[Max(MoveTo(b))].kind
New(kind, a, b) == \E p \in (a + 1)..b : line[p].kind = kind

\* a room entered since the last token comes with what was said before
Since(a, b) == IF New("join", a, b) THEN 0 ELSE a
From(a, b) == Max({Since(a, b), b - Window})
Posts == {"msg", "react", "call", "signal"}
Posted(b) == {p \in 1..b : line[p].kind \in Posts}

PeerActs ==
  \/ Mine(Len(line)) = None /\ Grows(Event("invite", "peer", 0))
  \/ /\ Mine(Len(line)) \in {"invite", "join"}
     /\ \/ Grows(Event("msg", "peer", 0)) \/ Grows(Event("call", "peer", 0))
        \/ \E p \in Posted(Len(line)) :
              /\ line[p].by = "peer" /\ line[p].kind = "msg"
              /\ Grows(Event("edit", "peer", p)) \/ Grows(Event("redact", "peer", p))
Peer == PeerActs /\ UNCHANGED <<cacheVars, loop, todo, req>>

----------------------------------------------------------------------------
(* Applying an answer *)

Inserted(r, p) == [r EXCEPT ![p] = "shown"]
Edited(r, p) == IF r[p] = "shown" THEN [r EXCEPT ![p] = "edited"] ELSE r
Redacted(r, p) ==
  IF r[p] = "none" THEN r
  ELSE [r EXCEPT ![p] = IF line[p].kind = "react" THEN "none" ELSE "gone"]

AfterEvent(r, p) ==
  CASE line[p].kind \in Posts -> Inserted(r, p)
    [] line[p].kind = "edit" -> Edited(r, line[p].of)
    [] line[p].kind = "redact" -> Redacted(r, line[p].of)
    [] OTHER -> r
AfterEvents(a, b) ==
  LET f[p \in a..b] == IF p = a THEN row ELSE AfterEvent(f[p - 1], p) IN f[b]

ProcessInvite == room' = "invite" /\ UNCHANGED <<row, cut>>
ProcessLeave == room' = (IF room = None THEN None ELSE "leave") /\ UNCHANGED <<row, cut>>
\* all of the answer, or its events up to k
ProcessJoined(a, b, k) ==
  /\ room' = "join"
  /\ row' = AfterEvents(From(a, b), k)
  /\ cut' = IF k = b THEN cut \union (Since(a, b) + 1)..From(a, b) ELSE cut

\* the answer to a token a, made when the timeline had b events
ProcessRooms(a, b, k) ==
  CASE a < b /\ Mine(b) = "join" -> ProcessJoined(a, b, k)
    [] Mine(b) = "invite" /\ New("invite", a, b) -> ProcessInvite
    [] Mine(b) = "leave" /\ New("leave", a, b) -> ProcessLeave
    [] OTHER -> UNCHANGED <<room, row, cut>>

ProcessSync(a, b) == ProcessRooms(a, b, b) /\ token' = b

\* it stops before the token is stored
SlipProcessPart(a, b) == \E k \in From(a, b)..b : ProcessRooms(a, b, k) /\ token' = b
ProcessPart(a, b) == \E k \in From(a, b)..b : ProcessRooms(a, b, k) /\ UNCHANGED token

----------------------------------------------------------------------------
(* The loops *)

Idle == [at |-> "off", since |-> 0, upto |-> 0]
HasActiveStream == \E t \in Tabs : loop[t].at # "off"
Goes(l, at) == loop' = [loop EXCEPT ![l] = [Idle EXCEPT !.at = at]]

OpenTab(t) ==
  /\ loop[t].at = "off"
  /\ Goes(t, "ready")
  /\ UNCHANGED <<line, cacheVars, todo, req>>

Asks(l) ==
  /\ loop' = [loop EXCEPT ![l] = [at |-> "asks", since |-> token, upto |-> token]]
  /\ UNCHANGED <<line, cacheVars, todo, req>>
StreamAsks(t) == loop[t].at = "ready" /\ Asks(t)
SyncNow == loop[Now].at = "off" /\ req = None /\ Asks(Now)
Tick == loop[Worker].at = "off" /\ todo = <<>> /\ ~HasActiveStream /\ Asks(Worker)

SlipAnswer(l) ==
  /\ loop[l].at = "asks"
  /\ loop' = [loop EXCEPT ![l].at = "answered", ![l].since = Len(line)]
  /\ UNCHANGED <<line, cacheVars, todo, req>>
Answer(l) ==
  /\ loop[l].at = "asks"
  /\ loop' = [loop EXCEPT ![l].at = "answered", ![l].upto = Len(line)]
  /\ UNCHANGED <<line, cacheVars, todo, req>>

\* a stream whose tab was closed notices at its next yield
StreamGoesOn(t) == Goes(t, "ready") \/ Goes(t, "off")

StreamSync(t) ==
  /\ loop[t].at = "answered"
  /\ ProcessSync(loop[t].since, loop[t].upto)
  /\ StreamGoesOn(t)
  /\ UNCHANGED <<line, logged, todo, req>>
StreamFails(t) ==
  /\ \/ loop[t].at = "asks" /\ UNCHANGED <<room, cut, row, token>>
     \/ loop[t].at = "answered" /\ ProcessPart(loop[t].since, loop[t].upto)
  /\ StreamGoesOn(t)
  /\ UNCHANGED <<line, logged, todo, req>>

SyncNowEnds ==
  /\ \/ loop[Now].at = "asks" /\ UNCHANGED <<room, cut, row, token>>
     \/ /\ loop[Now].at = "answered"
        /\ ProcessSync(loop[Now].since, loop[Now].upto) \/ ProcessPart(loop[Now].since, loop[Now].upto)
  /\ Goes(Now, "off")
  /\ UNCHANGED <<line, logged, todo, req>>

----------------------------------------------------------------------------
(* The push worker *)

InOrder(S) == [i \in 1..Cardinality(S) |-> CHOOSE p \in S : Cardinality({q \in S : q < p}) = i - 1]
Intent(S) == [of |-> S, sent |-> FALSE]

SlipFresh(kind, a, b) ==
  {p \in (a + 1)..b : line[p].kind = kind /\ line[p].by = "peer"}
Fresh(kind, a, b) ==
  {p \in (a + 1)..b : line[p].kind = kind /\ line[p].by = "peer" /\ p \notin logged}
OneEach(S) == LET ps == InOrder(S) IN [i \in DOMAIN ps |-> Intent({ps[i]})]
AllAtOnce(S) == IF S = {} THEN <<>> ELSE <<Intent(S)>>
PlanPushes(a, b) ==
  CASE a < b /\ Mine(b) = "join" ->
         AllAtOnce(Fresh("msg", From(a, b), b)) \o OneEach(Fresh("call", From(a, b), b))
    [] Mine(b) = "invite" /\ room # "invite" -> OneEach(Fresh("invite", a, b))
    [] OTHER -> <<>>

WorkerSync ==
  /\ loop[Worker].at = "answered"
  /\ todo' = PlanPushes(loop[Worker].since, loop[Worker].upto)
  /\ ProcessSync(loop[Worker].since, loop[Worker].upto)
  /\ Goes(Worker, "off")
  /\ UNCHANGED <<line, logged, req>>
WorkerFails ==
  /\ \/ loop[Worker].at = "asks" /\ UNCHANGED <<room, cut, row, token>>
     \/ loop[Worker].at = "answered" /\ ProcessPart(loop[Worker].since, loop[Worker].upto)
  /\ Goes(Worker, "off")
  /\ UNCHANGED <<line, logged, todo, req>>

DispatchPush ==
  /\ todo # <<>> /\ ~Head(todo).sent
  /\ todo' = [todo EXCEPT ![1].sent = TRUE]
  /\ UNCHANGED <<line, cacheVars, loop, req>>
MarkPushed ==
  /\ todo # <<>> /\ Head(todo).sent
  /\ logged' = logged \union Head(todo).of
  /\ todo' = Tail(todo)
  /\ UNCHANGED <<line, room, cut, row, token, loop, req>>
DispatchFails ==
  /\ todo # <<>> /\ ~Head(todo).sent
  /\ todo' = <<>>
  /\ UNCHANGED <<line, cacheVars, loop, req>>

----------------------------------------------------------------------------
(* Requests: what the homeserver did, then what the cache is told *)

Then(do, p) == req' = [do |-> do, of |-> p]
Requests(e, do, p) ==
  /\ req = None /\ loop[Now].at = "off"  \* one request at a time
  /\ Grows(e)
  /\ Then(do, p)
  /\ UNCHANGED <<cacheVars, loop, todo>>
Here == Len(line) + 1
Joined == Mine(Len(line)) = "join"

CreateDm == Mine(Len(line)) = None /\ Requests(Event("join", "me", 0), "join", 0)
CreateRoom == CreateDm
ApiCreateRoom == CreateRoom
McpCreateRoom == CreateRoom
JoinRoom == Mine(Len(line)) = "invite" /\ Requests(Event("join", "me", 0), "join", 0)
ApiJoinRoom == JoinRoom

LeaveRoom == Mine(Len(line)) \in {"invite", "join"} /\ Requests(Event("leave", "me", 0), "leave", 0)
ApiLeaveRoom == LeaveRoom
McpLeaveRoom == LeaveRoom

SendMessage == Joined /\ room = "join" /\ Requests(Event("msg", "me", 0), "store", Here)
UploadToRoom == SendMessage
ApiSendMessage == SendMessage
McpSendMessage == SendMessage

React(p) == Joined /\ Requests(Event("react", "me", p), "store", Here)
MyReactions(p) == {q \in Posted(Len(line)) : row[q] # "none" /\ line[q].kind = "react" /\ line[q].of = p}
Unreact(q) == Joined /\ Requests(Event("redact", "me", q), "redact", q)
ReactToMessage(p) ==
  /\ row[p] # "none"
  /\ IF MyReactions(p) = {} THEN React(p) ELSE \E q \in MyReactions(p) : Unreact(q)
ApiReactToMessage(p) == row[p] # "none" /\ React(p)
McpReact(p) == ApiReactToMessage(p)

EditMessage(p) ==
  /\ Joined /\ row[p] # "none" /\ line[p].kind = "msg" /\ line[p].by = "me"
  /\ Requests(Event("edit", "me", p), "edit", p)
ApiEditMessage(p) == EditMessage(p)
McpEditMessage(p) == EditMessage(p)

RedactMessage(p) ==
  /\ Joined /\ row[p] # "none" /\ line[p].kind \in {"msg", "react"}
  /\ Requests(Event("redact", "me", p), "redact", p)
ApiRedactMessage(p) == RedactMessage(p)
McpDeleteMessage(p) == RedactMessage(p)

StartCall == Joined /\ room = "join" /\ Requests(Event("call", "me", 0), "store", Here)
CallExists(p) == row[p] # "none" /\ line[p].kind = "call"
AnswerCall(p) ==
  Joined /\ room = "join" /\ CallExists(p) /\ Requests(Event("signal", "me", p), "store", Here)
SendCandidates(p) == AnswerCall(p)
HangupCall(p) == AnswerCall(p)

----------------------------------------------------------------------------
DeleteRoom == room' = None /\ row' = [p \in DOMAIN row |-> "none"]
Stored ==
  CASE req.do = "store" -> row' = Inserted(row, req.of) /\ UNCHANGED room
    [] req.do = "edit" -> row' = Edited(row, req.of) /\ UNCHANGED room
    [] req.do = "redact" -> row' = Redacted(row, req.of) /\ UNCHANGED room
    [] req.do = "join" -> room' = "join" /\ UNCHANGED row
    [] OTHER -> DeleteRoom
RequestEnds ==
  /\ req # None
  /\ Stored \/ UNCHANGED <<room, row>>  \* or the answer is lost
  /\ req' = None
  /\ UNCHANGED <<line, cut, token, logged, loop, todo>>

\* the web process starts anew; the MCP server may go on with its request
Restart ==
  /\ loop' = [l \in Loops |-> Idle]
  /\ todo' = <<>>
  /\ req' \in {req, None}
  /\ UNCHANGED <<line, cacheVars>>

----------------------------------------------------------------------------
Init ==
  /\ line = <<>>
  /\ room = None /\ cut = {} /\ row = [p \in Positions |-> "none"] /\ token = 0 /\ logged = {}
  /\ loop = [l \in Loops |-> Idle] /\ todo = <<>> /\ req = None

StreamNext(t) ==
  OpenTab(t) \/ StreamAsks(t) \/ Answer(t) \/ StreamSync(t) \/ StreamFails(t)
WorkerNext ==
  Tick \/ Answer(Worker) \/ WorkerSync \/ WorkerFails \/ DispatchPush \/ MarkPushed \/ DispatchFails
RoomNext ==
  \/ CreateDm \/ CreateRoom \/ ApiCreateRoom \/ McpCreateRoom \/ JoinRoom \/ ApiJoinRoom
  \/ LeaveRoom \/ ApiLeaveRoom \/ McpLeaveRoom
MessageNext ==
  \/ SendMessage \/ UploadToRoom \/ ApiSendMessage \/ McpSendMessage \/ StartCall
  \/ \E p \in Posted(Len(line)) :
       \/ ReactToMessage(p) \/ ApiReactToMessage(p) \/ McpReact(p)
       \/ EditMessage(p) \/ ApiEditMessage(p) \/ McpEditMessage(p)
       \/ RedactMessage(p) \/ ApiRedactMessage(p) \/ McpDeleteMessage(p)
       \/ AnswerCall(p) \/ SendCandidates(p) \/ HangupCall(p)
Next ==
  \/ Peer \/ RoomNext \/ MessageNext \/ RequestEnds
  \/ \E t \in Tabs : StreamNext(t)
  \/ SyncNow \/ Answer(Now) \/ SyncNowEnds
  \/ WorkerNext
  \/ Restart

Spec == Init /\ [][Next]_vars

----------------------------------------------------------------------------
TypeOK ==
  /\ line \in Seq([kind : Moves \union Posts \union {"edit", "redact"}, by : {"me", "peer"}, of : 0..MaxEvents])
  /\ room \in {None, "invite", "join", "leave"}
  /\ cut \subseteq Positions
  /\ row \in [Positions -> {"none", "shown", "edited", "gone"}]
  /\ token \in 0..Len(line) /\ logged \subseteq DOMAIN line
  /\ loop \in [Loops -> [at : {"off", "ready", "asks", "answered"}, since : 0..MaxEvents, upto : 0..MaxEvents]]
  /\ \A l \in Loops : loop[l].since <= loop[l].upto /\ loop[l].upto <= Len(line)
  /\ todo \in Seq([of : SUBSET DOMAIN line, sent : BOOLEAN])
  /\ req = None \/ req \in [do : {"store", "edit", "redact", "join", "leave"}, of : 0..MaxEvents]

TakenBack(p) == line[p].kind = "react" /\ \E q \in DOMAIN line : line[q].kind = "redact" /\ line[q].of = p

\* However answers are delayed, repeated or cut short, everything that was said
\* in a room the user is in is in the cache up to the stored token, but for
\* reactions taken back and for what the homeserver cut from a long answer.
NoGap ==
  Mine(token) = "join" /\ Mine(Len(line)) = "join" =>
    \A p \in Posted(token) \ cut : row[p] # "none" \/ TakenBack(p)

\* What was logged as rung is not rung again, however often the token goes back:
\* an intent that is still to be sent names nothing in the log.
RungOnce == \A i \in DOMAIN todo : ~todo[i].sent => todo[i].of \cap logged = {}
=============================================================================
