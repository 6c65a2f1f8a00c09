------------------------------ MODULE BotSession ------------------------------
(***************************************************************************)
(* A program like pyCraft's start.py, the bot of the mob switch: it has one*)
(* AuthenticationToken, logs in with it, and gives it to its Connection.   *)
(* The networking thread asks the token to join while the program may be   *)
(* refreshing or ending the same token, field by field.                    *)
(***************************************************************************)
EXTENDS PacketConnection

CONSTANTS Accounts, MaxRequests

VARIABLES
  token, live, requests, call, reading, trusted,
  joined       \* threads whose join the session service has accepted

Token == INSTANCE AuthenticationToken

ASSUME BotAssumption == MaxRequests \in Nat /\ Token!NoAccount \notin Accounts

tokenVars == <<token, live, requests, call, reading, trusted>>
botVars == <<vars, tokenVars, joined>>

BotInit == Init /\ Token!Init /\ joined = {}

\* LoginReactor.react, auth_token.join: what it reads of the token, then the
\* service's verdict, which may be lost.
BotReads(t) ==
  /\ pc[t] = "join"
  /\ Token!JoinChecks \/ Token!JoinReads
  /\ UNCHANGED <<vars, joined>>

BotJoin(t) ==
  \E accepted \in BOOLEAN :
    /\ Join(t, accepted) /\ Token!AskJoin(accepted)
    /\ joined' \in IF accepted THEN {joined \cup {t}}
                   ELSE IF Token!Accepted THEN {joined, joined \cup {t}}
                   ELSE {joined}

Alone == UNCHANGED <<tokenVars, joined>>

\* main: one thread, which waits for the service's answers, has a name to
\* connect with, connects once and then writes.
BotReturn(c) ==
  pc[c] = "idle" /\ (Token!Assign \/ Token!Return) /\ UNCHANGED <<vars, joined>>

BotAsk(c) == pc[c] = "idle" /\ Token!Ask /\ UNCHANGED <<vars, joined>>

BotConnect(c) ==
  /\ call = Token!NoCall /\ Token!Authenticated /\ dials = 0
  /\ Connect(c, "play") /\ Alone

BotChat(c) == call = Token!NoCall /\ (Chat(c) \/ ChatNow(c)) /\ Alone

BotNext ==
  \/ \E t \in Ids : BotReads(t) \/ BotJoin(t)
  \/ \E t \in Ids : ThreadStep(t) /\ Alone
  \/ \E p \in Procs : CallStep(p) /\ Alone
  \/ \E c \in Callers : BotReturn(c) \/ BotAsk(c) \/ BotConnect(c) \/ BotChat(c)
  \/ \E s \in Ids : Server(s) /\ Alone

BotSpec == BotInit /\ [][BotNext]_botVars

-----------------------------------------------------------------------------
\* Type invariant.
BotTypeOK == TypeOK /\ Token!TypeOK /\ joined \subseteq Ids

\* The token stays usable after authenticate or refresh has returned True.
TrustedIsLive == Token!TrustedIsLive

\* A thread answers an online server's encryption request, and so goes on to
\* play, only after the session service has accepted its join, whatever the
\* program does to the token meanwhile (connection.py:681-693).
JoinedFirst ==
  \A t \in Ids :
    pc[t] \in {"answer", "wrap"} /\ job[t].pkt = "encryption request"
      => t \in joined
=============================================================================
