------------------------- MODULE AuthenticationToken -------------------------
(***************************************************************************)
(* minecraft/authentication.py: one AuthenticationToken, used by one thread*)
(* of a program and, through join, by the networking thread of a           *)
(* Connection; and the authentication service it talks to.                 *)
(*                                                                         *)
(* A call is a step of the service, which may also never get the request or*)
(* lose its answer (_make_request has a timeout of 15 seconds), then one   *)
(* assignment at a time, of the fields from the answer, and the return.    *)
(* join reads the fields in three steps: other threads run in between.     *)
(***************************************************************************)
EXTENDS Integers

CONSTANTS
  Accounts,    \* user names with their passwords and their profiles
  MaxRequests  \* bound: requests of the program to the service

Nil == 0       \* Python's None: ids of tokens begin with 1
NoAccount == "none"
Tokens == 1..MaxRequests

VARIABLES
  token,       \* username, access_token, client_token, profile.id_, .name
  live,        \* the service: the pairs of tokens it accepts, with the account
  requests,
  call,        \* the call under way: the answer to it, the field to assign next
  reading,     \* the join under way: its step, the access token it has read
  trusted      \* the last authenticate or refresh has returned True, and
               \* nothing has been asked since that may end the pair

tokenVars == <<token, live, requests, call, reading, trusted>>

\* The fields in the order of the assignments; refresh begins with the second.
Fields == <<"username", "access", "client", "id", "name">>
Done == 6

Pair(a, c, u) == [access |-> a, client |-> c, account |-> u]
Pairs == [access : Tokens, client : Tokens, account : Accounts]

NoCall == [op |-> "none", answer |-> "none", next |-> Done,
           pair |-> Pair(Nil, Nil, NoAccount)]
NotReading == [at |-> "none", access |-> Nil]

Init ==
  /\ token = [username |-> NoAccount, access |-> Nil, client |-> Nil,
              id |-> NoAccount, name |-> NoAccount]
  /\ live = {} /\ requests = 0 /\ call = NoCall /\ reading = NotReading
  /\ trusted = FALSE

\* The property `authenticated'.
Authenticated ==
  /\ token.username # NoAccount /\ token.access # Nil /\ token.client # Nil
  /\ token.id # NoAccount /\ token.name # NoAccount

-----------------------------------------------------------------------------
\* _make_request with an answer: a pair of tokens with or without the selected
\* profile, an empty answer, an error, or none within 15 seconds.
Request(op, answer, pair) ==
  /\ call = NoCall /\ requests < MaxRequests
  /\ requests' = requests + 1
  /\ call' = [op |-> op, answer |-> answer, pair |-> pair,
              next |-> IF answer \notin {"pair", "no profile"} THEN Done
                       ELSE IF op = "authenticate" THEN 1 ELSE 2]
  /\ UNCHANGED <<token, reading>>

\* An error, or a request that never arrives: the service has not changed, and
\* the program gets an exception (of validate it may get None).
Refused(op) ==
  /\ Request(op, "error", NoCall.pair)
  /\ UNCHANGED <<live, trusted>>

\* A new pair for the account.  Without a client token in the request the
\* account's earlier pairs end.
AskAuthenticate(u, invalidate_previous) ==
  LET c == IF ~ invalidate_previous /\ token.client # Nil
           THEN token.client ELSE requests + 1
      new == Pair(requests + 1, c, u)
  IN \/ /\ \E answer \in {"pair", "no profile", "lost"} :
             /\ Request("authenticate", answer, new)
             /\ trusted' = (trusted /\ answer = "lost" /\
                             (~ invalidate_previous \/ token.id # u))
        /\ live' = {p \in live : ~ invalidate_previous \/ p.account # u} \cup {new}
     \/ Refused("authenticate")

\* refresh raises ValueError unless both tokens are there.
AskRefresh ==
  /\ token.access # Nil /\ token.client # Nil
  /\ \/ \E p \in live :
          LET new == [p EXCEPT !.access = requests + 1] IN
          /\ p.access = token.access /\ p.client = token.client
          /\ \E answer \in {"pair", "no profile", "lost"} :
               Request("refresh", answer, new)
          /\ live' = (live \ {p}) \cup {new}
          /\ trusted' = FALSE
     \/ Refused("refresh")

\* 204 if the access token is accepted; any other answer is no error here.
AskValidate ==
  /\ token.access # Nil
  /\ \/ /\ \E p \in live : p.access = token.access
        /\ Request("validate", "empty", NoCall.pair)
        /\ UNCHANGED <<live, trusted>>
     \/ Refused("validate")

AskSignOut(u) ==
  \/ /\ \E answer \in {"empty", "lost"} : Request("sign_out", answer, NoCall.pair)
     /\ live' = {p \in live : p.account # u}
     /\ trusted' = (trusted /\ token.id # u)
  \/ Refused("sign_out")

\* invalidate sends what the fields hold, None included.
AskInvalidate ==
  \/ /\ \E answer \in {"empty", "lost"} : Request("invalidate", answer, NoCall.pair)
     /\ live' = {p \in live : p.access # token.access \/ p.client # token.client}
     /\ trusted' = FALSE
  \/ Refused("invalidate")

-----------------------------------------------------------------------------
\* What the answer holds for a field.
Answered(f) ==
  CASE f = "access" -> call.pair.access
    [] f = "client" -> call.pair.client
    [] OTHER -> call.pair.account

\* Mutant: the refreshed access token is not kept.
AssignStale ==
  /\ call.next # Done
  /\ ~ (call.answer = "no profile" /\ Fields[call.next] = "id")
  /\ token' = [token EXCEPT ![Fields[call.next]] =
       IF call.op = "refresh" /\ Fields[call.next] = "access" THEN @
       ELSE Answered(Fields[call.next])]
  /\ call' = [call EXCEPT !.next = @ + 1]
  /\ UNCHANGED <<live, requests, reading, trusted>>

\* The next assignment.  An answer without selectedProfile ends the call with a
\* KeyError when its profile's id is to be assigned.
Assign ==
  /\ call.next # Done
  /\ ~ (call.answer = "no profile" /\ Fields[call.next] = "id")
  /\ token' = [token EXCEPT ![Fields[call.next]] = Answered(Fields[call.next])]
  /\ call' = [call EXCEPT !.next = @ + 1]
  /\ UNCHANGED <<live, requests, reading, trusted>>

\* The call returns, or raises its exception.
Return ==
  /\ call # NoCall
  /\ call.next = Done \/ (call.answer = "no profile" /\ Fields[call.next] = "id")
  /\ trusted' = (trusted \/ call.answer = "pair")
  /\ call' = NoCall
  /\ UNCHANGED <<token, live, requests, reading>>

(***************************************************************************)
(* join, called by a networking thread at any time: it asks for            *)
(* `authenticated', reads the access token, then the profile, and sends    *)
(* them.  The service accepts a live access token with its own profile; its*)
(* answer may be lost.                                                     *)
(***************************************************************************)
JoinChecks ==
  /\ reading.at = "none" /\ Authenticated
  /\ reading' = [reading EXCEPT !.at = "checked"]
  /\ UNCHANGED <<token, live, requests, call, trusted>>

JoinReads ==
  /\ reading.at = "checked"
  /\ reading' = [at |-> "read", access |-> token.access]
  /\ UNCHANGED <<token, live, requests, call, trusted>>

Accepted ==
  /\ reading.at = "read"
  /\ \E p \in live : /\ p.access = reading.access
                     /\ p.account = token.id /\ p.account = token.name

AskJoin(joined) ==
  /\ IF joined THEN Accepted ELSE reading.at = "read" \/ ~ Authenticated
  /\ reading' = NotReading
  /\ UNCHANGED <<token, live, requests, call, trusted>>

Ask ==
  \/ \E u \in Accounts, i \in BOOLEAN : AskAuthenticate(u, i)
  \/ AskRefresh \/ AskValidate
  \/ \E u \in Accounts : AskSignOut(u)
  \/ AskInvalidate

Next ==
  \/ Ask \/ Assign \/ Return \/ JoinChecks \/ JoinReads
  \/ \E joined \in BOOLEAN : AskJoin(joined)

Spec == Init /\ [][Next]_tokenVars

-----------------------------------------------------------------------------
\* Type invariant.
TypeOK ==
  /\ token \in [username : Accounts \cup {NoAccount}, access : Tokens \cup {Nil},
                client : Tokens \cup {Nil}, id : Accounts \cup {NoAccount},
                name : Accounts \cup {NoAccount}]
  /\ live \subseteq Pairs
  /\ requests \in 0..MaxRequests
  /\ call \in [op : {"none", "authenticate", "refresh", "validate", "sign_out",
                     "invalidate"},
               answer : {"none", "pair", "no profile", "empty", "error", "lost"},
               next : 1..Done, pair : Pairs \cup {NoCall.pair}]
  /\ reading \in [at : {"none", "checked", "read"}, access : Tokens \cup {Nil}]
  /\ trusted \in BOOLEAN

\* After authenticate or refresh has returned True, the pair of tokens is one
\* that the service accepts, for the account whose profile the token holds,
\* until the program asks for something that ends it: errors, lost requests
\* and refused calls in between do not matter (authentication.py:122-134,
\* 157-170).
TrustedIsLive ==
  trusted /\ call = NoCall =>
    token.id = token.name /\ Pair(token.access, token.client, token.id) \in live
=============================================================================
