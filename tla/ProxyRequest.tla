---------------------------- MODULE ProxyRequest ----------------------------
(***************************************************************************)
(* What becomes of the plain requests of HTTPServer.js and the requests of *)
(* DNSServer.js, together with the connections of ProxyConnection.  A      *)
(* request is handed to its instance in the macrotask that finds it: the   *)
(* state "connecting" is reached by connect(), and what connect() does to  *)
(* the body or the questions is in HandOverBody and HandOverQuestions.     *)
(*                                                                         *)
(* http, the SOCKS agent and native-dns are external: they connect, answer *)
(* or fail at any time, the timer of a DNS question always fires, and a    *)
(* question ends once, with its answer or without.                         *)
(***************************************************************************)
EXTENDS ProxyConnection

CONSTANTS
    Plain,      \* the plain HTTP requests; the other requests are for DNS
    Question,   \* the questions of a DNS request
    MaxBody     \* bound: the chunks of the body of a plain request

ASSUME RequestAssumption ==
    /\ Plain \subseteq Request
    /\ \A d \in Request \ Plain : Identified[d] = {}
    /\ MaxBody \in Nat

Dns == Request \ Plain

VARIABLES
    body,       \* how many chunks of its body each client has sent
    finished,   \* the plain requests whose end event has come
    held,       \* the chunks kept until connect()
    written,    \* the chunks written to proxy_req
    ends,       \* how often proxy_req.end() was called
    response,   \* what the client of a plain request has been answered
    open,       \* the questions of each DNS request that are outstanding
    answers,    \* the questions whose answers are in its response
    replies     \* what was in the response each time it was sent

bodyVars == <<body, finished, held, written, ends, response>>
questionVars == <<open, answers, replies>>
requestVars == <<vars, bodyVars, questionVars>>

RequestTypeOK ==
    /\ body \in [Plain -> 0..MaxBody]
    /\ finished \subseteq Plain
    /\ response \in [Plain -> {"none", "head", "ended", "error", "aborted"}]
    /\ \A d \in Dns :
          /\ open[d] \union answers[d] \subseteq Question
          /\ open[d] \intersect answers[d] = {}
          /\ state[d] # "connecting" => open[d] = {} /\ replies[d] = <<>>

RequestInit ==
    /\ Init
    /\ body = [c \in Plain |-> 0]
    /\ finished = {}
    /\ held = [c \in Plain |-> <<>>]
    /\ written = [c \in Plain |-> <<>>]
    /\ ends = [c \in Plain |-> 0]
    /\ response = [c \in Plain |-> "none"]
    /\ open = [d \in Dns |-> {}]
    /\ answers = [d \in Dns |-> {}]
    /\ replies = [d \in Dns |-> <<>>]

-----------------------------------------------------------------------------
HandedOver == {c \in Request : state[c] # "connecting" /\ state'[c] = "connecting"}

(* Mutated form: a body that has ended already is not ended again. *)
HandOverBodyUnended ==
    /\ written' = [c \in Plain |-> IF c \in HandedOver THEN written[c] \o held[c] ELSE written[c]]
    /\ held' = [c \in Plain |-> IF c \in HandedOver THEN <<>> ELSE held[c]]
    /\ UNCHANGED <<body, finished, ends, response>>

(***************************************************************************)
(* connect() of the plain requests that this step gave to an instance: the *)
(* listener of the body is exchanged, what was held is written, and the    *)
(* end of the body passed on where it came before.                         *)
(***************************************************************************)
HandOverBody ==
    /\ written' = [c \in Plain |-> IF c \in HandedOver THEN written[c] \o held[c] ELSE written[c]]
    /\ held' = [c \in Plain |-> IF c \in HandedOver THEN <<>> ELSE held[c]]
    /\ ends' = [c \in Plain |-> IF c \in HandedOver \intersect finished
                                THEN ends[c] + 1 ELSE ends[c]]
    /\ UNCHANGED <<body, finished, response>>

(* connect() of the DNS requests: every question is sent. *)
HandOverQuestions ==
    /\ open' = [d \in Dns |-> IF d \in HandedOver THEN Question ELSE open[d]]
    /\ UNCHANGED <<answers, replies>>

-----------------------------------------------------------------------------
Handled(c) == state[c] \in {"waiting_ready", "waiting_pool", "connecting"}

(* A chunk of the body: held until connect(), then written. *)
BodyChunk(c) ==
    /\ Handled(c)
    /\ client[c] = "open"
    /\ c \notin finished
    /\ body[c] < MaxBody
    /\ body' = [body EXCEPT ![c] = @ + 1]
    /\ IF state[c] = "connecting"
       THEN written' = [written EXCEPT ![c] = Append(@, body'[c])] /\ UNCHANGED held
       ELSE held' = [held EXCEPT ![c] = Append(@, body'[c])] /\ UNCHANGED written
    /\ UNCHANGED <<vars, finished, ends, response, questionVars>>

(* The end of the body: remembered, and passed on after connect(). *)
BodyEnds(c) ==
    /\ Handled(c)
    /\ client[c] = "open"
    /\ c \notin finished
    /\ finished' = finished \union {c}
    /\ ends' = [ends EXCEPT ![c] = IF state[c] = "connecting" THEN @ + 1 ELSE @]
    /\ UNCHANGED <<vars, body, held, written, response, questionVars>>

(***************************************************************************)
(* res.writeHead(), for the head of the destination's response or for the  *)
(* 500 of onError, which also ends the response: where a head was written  *)
(* before, whatever its status, it throws, inside an event handler.        *)
(***************************************************************************)
WriteHead(c, answer) ==
    IF response[c] = "none"
    THEN response' = [response EXCEPT ![c] = answer] /\ UNCHANGED crashed
    ELSE crashed' = TRUE /\ UNCHANGED response

(* The client gives up, before or after connect(): no end event comes, and *)
(* its request errs, as it does in the later versions of Node, or is mute. *)
ClientAborts(c) ==
    /\ Handled(c)
    /\ client[c] = "open"
    /\ client' = [client EXCEPT ![c] = "closed"]
    /\ WriteHead(c, "aborted") \/ UNCHANGED <<response, crashed>>
    /\ UNCHANGED <<instanceVars, state, via, freed, outbound, dataVars, body, finished,
                   held, written, ends, questionVars>>

(* The head of the destination's response is passed on, unless the request *)
(* of the client has erred: then there is one already, and this throws.    *)
Responds(c) ==
    /\ state[c] = "connecting"
    /\ via[c] \notin down
    /\ response[c] \in {"none", "aborted"}
    /\ WriteHead(c, "head")
    /\ UNCHANGED <<instanceVars, state, via, socketVars, dataVars, body, finished,
                   held, written, ends, questionVars>>

ResponseEnds(c) ==
    /\ response[c] = "head"
    /\ response' = [response EXCEPT ![c] = "ended"]
    /\ UNCHANGED <<vars, body, finished, held, written, ends, questionVars>>

(* proxy_req errs, also when it has been answered or has erred before. *)
ProxyFails(c) ==
    /\ state[c] = "connecting"
    /\ WriteHead(c, "error")
    /\ UNCHANGED <<instanceVars, state, via, socketVars, dataVars, body, finished,
                   held, written, ends, questionVars>>

-----------------------------------------------------------------------------
(* Mutated form: a question that has ended is still waited for. *)
QuestionEndsOpen(d, q) ==
    /\ replies' = [replies EXCEPT ![d] = Append(@, answers'[d])]
    /\ UNCHANGED <<vars, bodyVars, open>>

(* A question ends: the response all of them share is sent as it is. *)
QuestionEnds(d, q) ==
    /\ open' = [open EXCEPT ![d] = @ \ {q}]
    /\ replies' = [replies EXCEPT ![d] = Append(@, answers'[d])]
    /\ UNCHANGED <<vars, bodyVars>>

(* Tor answers the question, with records or with an error. *)
Answered(d, q) ==
    /\ q \in open[d]
    /\ via[d] \notin down
    /\ \/ answers' = [answers EXCEPT ![d] = @ \union {q}]
       \/ UNCHANGED answers
    /\ QuestionEnds(d, q)

(* Mutated form: a question that timed out is not ended. *)
TimedOutSilently(d, q) ==
    /\ q \in open[d]
    /\ open' = [open EXCEPT ![d] = @ \ {q}]
    /\ UNCHANGED <<vars, bodyVars, answers, replies>>

(* dns_timeout has passed, whether the instance is alive or not. *)
TimedOut(d, q) ==
    /\ q \in open[d]
    /\ UNCHANGED answers
    /\ QuestionEnds(d, q)

-----------------------------------------------------------------------------
PlainStep(c) ==
    \/ BodyChunk(c)
    \/ BodyEnds(c)
    \/ ClientAborts(c)
    \/ Responds(c)
    \/ ResponseEnds(c)
    \/ ProxyFails(c)

DnsStep(d) == \E q \in Question : Answered(d, q) \/ TimedOut(d, q)

RequestNext ==
    \/ Next /\ HandOverBody /\ HandOverQuestions
    \/ ~crashed /\ \E c \in Plain : PlainStep(c)
    \/ ~crashed /\ \E d \in Dns : DnsStep(d)

(* The timer of a question is started with it, and fires. *)
RequestFairness == \A d \in Dns : WF_requestVars(~crashed /\ DnsStep(d))

RequestSpec == RequestInit /\ [][RequestNext]_requestVars /\ RequestFairness

-----------------------------------------------------------------------------
(* The body of a plain request reaches the destination whole, in order and *)
(* ended exactly once, whether its chunks and its end come before the      *)
(* request has an instance, after, or partly; nothing is written before.   *)
BodyPassedOn ==
    \A c \in Plain :
        /\ written[c] \o held[c] = [k \in 1..body[c] |-> k]
        /\ IF state[c] = "connecting"
           THEN held[c] = <<>> /\ ends[c] = Cardinality({c} \intersect finished)
           ELSE written[c] = <<>> /\ ends[c] = 0

(* A DNS request that has an instance is replied to, once for each of its  *)
(* questions, though the Tor process may die at any time: the timeout ends *)
(* what it will not answer.  Only a crash of the program prevents it.      *)
DnsReplied ==
    \A d \in Dns :
        state[d] = "connecting" ~> crashed \/ Len(replies[d]) = Cardinality(Question)
=============================================================================
