--------------------------- MODULE BotSessionProofs ---------------------------
(***************************************************************************)
(* Proofs about a program with a token and a connection: it uses the       *)
(* connection as PacketConnection allows, its token can be trusted, and it *)
(* plays on an online server only after an accepted join.                  *)
(***************************************************************************)
EXTENDS BotSession, PacketConnectionProofs

LEMMA BotSteps ==
  ASSUME [BotNext]_botVars
  PROVE  [Next]_vars /\ (Token!Next \/ UNCHANGED tokenVars)
<1>1. ASSUME NEW t \in Ids, BotJoin(t) PROVE Next /\ Token!Next
  BY <1>1, Zenon DEF BotJoin, Next, Token!Next
<1>2. ASSUME NEW t \in Ids, BotReads(t) PROVE UNCHANGED vars /\ Token!Next
  BY <1>2, Zenon DEF BotReads, Token!Next
<1>3. CASE (\E t \in Ids : ThreadStep(t) /\ Alone) \/ (\E p \in Procs : CallStep(p) /\ Alone)
           \/ (\E s \in Ids : Server(s) /\ Alone)
  BY <1>3, Zenon DEF Next, Alone
<1>4. ASSUME NEW c \in Callers,
             BotReturn(c) \/ BotAsk(c) \/ BotConnect(c) \/ BotChat(c)
      PROVE  [Next]_vars /\ (Token!Next \/ UNCHANGED tokenVars)
  BY <1>4, Zenon DEF BotReturn, BotAsk, BotConnect, BotChat, Next, CallerStep,
                     Alone, Token!Next
<1>5. CASE UNCHANGED botVars
  BY <1>5 DEF botVars, tokenVars
<1> QED BY <1>1, <1>2, <1>3, <1>4, <1>5, Zenon DEF BotNext

\* The program uses its connection as PacketConnection describes it.
THEOREM Implements == BotSpec => Spec
<1>1. BotInit => Init
  BY DEF BotInit
<1>2. [BotNext]_botVars => [Next]_vars
  BY BotSteps
<1> QED BY <1>1, <1>2, PTL DEF BotSpec, Spec

THEOREM BotOneThread == BotSpec => []OneReader
BY Implements, OneThread, PTL

-----------------------------------------------------------------------------
(***************************************************************************)
(* The token.  The answer under way holds a pair that is accepted already, *)
(* and the fields that have been assigned hold its values.                 *)
(***************************************************************************)
Own == Token!Pair(token.access, token.client, token.id)

Assigned ==
  /\ call.next > 2 => token.access = call.pair.access
  /\ call.next > 3 => token.client = call.pair.client
  /\ call.next > 4 => token.id = call.pair.account
  /\ call.next > 5 => token.name = call.pair.account

TokenType ==
  [username : Accounts \cup {Token!NoAccount}, access : Token!Tokens \cup {0},
   client : Token!Tokens \cup {0}, id : Accounts \cup {Token!NoAccount},
   name : Accounts \cup {Token!NoAccount}]
CallType ==
  [op : {"none", "authenticate", "refresh", "validate", "sign_out", "invalidate"},
   answer : {"none", "pair", "no profile", "empty", "error", "lost"},
   next : 1..6, pair : Token!Pairs \cup {Token!NoCall.pair}]

TokenInv ==
  /\ Token!TypeOK
  /\ call.next # 6 => call.answer \in {"pair", "no profile"}
  /\ call.answer = "pair" => call.pair \in live /\ Assigned
  /\ trusted => /\ Own \in live /\ token.id = token.name
                /\ call.answer \notin {"pair", "no profile"}

USE DEF Token!Nil, Token!NoAccount, Token!Done

LEMMA Types == Token!TypeOK <=>
  /\ token \in TokenType /\ live \subseteq Token!Pairs
  /\ requests \in 0..MaxRequests /\ call \in CallType
  /\ reading \in [at : {"none", "checked", "read"}, access : Token!Tokens \cup {0}]
  /\ trusted \in BOOLEAN
BY DEF Token!TypeOK, TokenType, CallType

LEMMA RequestIds ==
  /\ 0 \notin Token!Tokens
  /\ requests \in 0..MaxRequests /\ requests < MaxRequests =>
       requests + 1 \in Token!Tokens /\ requests + 1 \in 0..MaxRequests
<1>1. MaxRequests \in Nat
  BY BotAssumption
<1> QED BY <1>1, SMT DEF Token!Tokens

LEMMA Numbers == 1 \in 1..6 /\ 1 <= 2 /\ 2 \in 1..6 /\ 2 <= 2 /\ 6 \in 1..6
OBVIOUS

LEMMA NoCallType ==
  /\ Token!NoCall \in CallType /\ Token!NoCall.next = 6
  /\ Token!NoCall.answer = "none"
  /\ Token!NoCall.pair \in Token!Pairs \cup {Token!NoCall.pair}
<1>1. Token!NoCall = [op |-> "none", answer |-> "none", next |-> 6, pair |-> Token!NoCall.pair]
  BY DEF Token!NoCall
<1> DEFINE p == Token!NoCall.pair
<1>2. /\ [op |-> "none", answer |-> "none", next |-> 6, pair |-> p] \in CallType
      /\ [op |-> "none", answer |-> "none", next |-> 6, pair |-> p].next = 6
      /\ [op |-> "none", answer |-> "none", next |-> 6, pair |-> p].answer = "none"
  BY DEF CallType
<1> QED BY <1>1, <1>2

LEMMA TokenInit == Token!Init => TokenInv
<1> SUFFICES ASSUME Token!Init PROVE TokenInv
  OBVIOUS
<1>1. requests \in 0..MaxRequests /\ live = {} /\ trusted = FALSE
  <2>1. MaxRequests \in Nat /\ requests = 0 /\ live = {} /\ trusted = FALSE
    BY BotAssumption DEF Token!Init
  <2> QED BY <2>1, SMT
<1>2. call \in CallType /\ call.answer = "none" /\ call.next = 6
  BY NoCallType DEF Token!Init
<1>3. token \in TokenType
  BY DEF Token!Init, TokenType
<1>4. reading \in [at : {"none", "checked", "read"}, access : Token!Tokens \cup {0}]
  BY DEF Token!Init, Token!NotReading
<1> QED BY <1>1, <1>2, <1>3, <1>4, Types DEF TokenInv

\* A request keeps the types; its pair is one the service knows.
LEMMA RequestType ==
  ASSUME TokenInv, NEW op \in {"authenticate", "refresh", "validate", "sign_out",
                               "invalidate"},
         NEW answer \in {"pair", "no profile", "empty", "error", "lost"},
         NEW pair \in Token!Pairs \cup {Token!NoCall.pair},
         Token!Request(op, answer, pair)
  PROVE  /\ token' = token /\ reading' = reading /\ requests' \in 0..MaxRequests
         /\ call' \in CallType
         /\ call'.answer = answer /\ call'.pair = pair
         /\ call'.next <= 2 \/ answer \notin {"pair", "no profile"}
         /\ call'.next # 6 => answer \in {"pair", "no profile"}
         /\ requests + 1 \in Token!Tokens
<1> DEFINE n == IF answer \notin {"pair", "no profile"} THEN 6
                ELSE IF op = "authenticate" THEN 1 ELSE 2
<1>1. /\ requests < MaxRequests /\ requests' = requests + 1 /\ token' = token
      /\ reading' = reading
      /\ call' = [op |-> op, answer |-> answer, pair |-> pair, next |-> n]
  BY DEF Token!Request
<1>2. requests \in 0..MaxRequests
  BY Types DEF TokenInv
<1>3. requests + 1 \in Token!Tokens /\ requests + 1 \in 0..MaxRequests
  BY <1>1, <1>2, RequestIds
<1>4. /\ n \in 1..6 /\ (n <= 2 \/ answer \notin {"pair", "no profile"})
      /\ n # 6 => answer \in {"pair", "no profile"}
  <2>1. CASE answer \in {"pair", "no profile"}
    <3>1. n = 1 \/ n = 2
      BY <2>1
    <3>2. n \in 1..6 /\ n <= 2
      BY <3>1, Numbers, Zenon
    <3> QED BY <2>1, <3>2
  <2>2. CASE answer \notin {"pair", "no profile"}
    <3>1. n = 6
      BY <2>2
    <3>2. n \in 1..6
      BY <3>1, Numbers, Zenon
    <3> QED BY <2>2, <3>1, <3>2
  <2> QED BY <2>1, <2>2
<1> HIDE DEF n
<1>5. /\ call' \in CallType /\ call'.answer = answer /\ call'.pair = pair
      /\ call'.next = n
  BY <1>1, <1>4 DEF CallType
<1> QED BY <1>1, <1>3, <1>4, <1>5

\* What every request has to show besides.
LEMMA RequestInv ==
  ASSUME TokenInv, NEW op \in {"authenticate", "refresh", "validate", "sign_out",
                               "invalidate"},
         NEW answer \in {"pair", "no profile", "empty", "error", "lost"},
         NEW pair \in Token!Pairs \cup {Token!NoCall.pair},
         Token!Request(op, answer, pair),
         live' \subseteq Token!Pairs, trusted' \in BOOLEAN,
         answer = "pair" => pair \in live',
         trusted' => /\ answer \notin {"pair", "no profile"} /\ trusted
                     /\ Own \in live'
  PROVE  TokenInv'
<1>1. /\ token' = token /\ Own' = Own
  BY RequestType DEF Own, Token!Pair
<1>2. /\ token \in TokenType
      /\ reading \in [at : {"none", "checked", "read"}, access : Token!Tokens \cup {0}]
      /\ trusted => token.id = token.name
  BY Types DEF TokenInv
<1>3. Token!TypeOK'
  <2>1. /\ token' \in TokenType /\ requests' \in 0..MaxRequests /\ call' \in CallType
        /\ reading' \in [at : {"none", "checked", "read"}, access : Token!Tokens \cup {0}]
    BY <1>1, <1>2, RequestType
  <2> QED BY <2>1, Zenon DEF Token!TypeOK, TokenType, CallType
<1>4. /\ call'.answer = answer /\ call'.pair = pair
      /\ call'.next # 6 => answer \in {"pair", "no profile"}
  BY RequestType
<1>5. answer = "pair" => Assigned'
  <2>1. call'.next \in 1..6 /\ (call'.next <= 2 \/ answer \notin {"pair", "no profile"})
    BY RequestType DEF CallType
  <2>2. answer = "pair" =>
          ~ (call'.next > 2) /\ ~ (call'.next > 3) /\ ~ (call'.next > 4) /\ ~ (call'.next > 5)
    BY <2>1
  <2> QED BY <2>2, Zenon DEF Assigned
<1>6. trusted' => Own' \in live' /\ token'.id = token'.name
  BY <1>1, <1>2
<1> QED BY <1>3, <1>4, <1>5, <1>6, Zenon DEF TokenInv

LEMMA RefusedInv ==
  ASSUME TokenInv, NEW op \in {"authenticate", "refresh", "validate", "sign_out",
                               "invalidate"},
         Token!Refused(op)
  PROVE  TokenInv'
<1>1. /\ Token!Request(op, "error", Token!NoCall.pair) /\ live' = live
      /\ trusted' = trusted
  BY DEF Token!Refused
<1>2. live \subseteq Token!Pairs /\ trusted \in BOOLEAN /\ (trusted => Own \in live)
  BY DEF TokenInv, Token!TypeOK
<1> QED BY <1>1, <1>2, RequestInv, Zenon

LEMMA AskInv == ASSUME TokenInv, Token!Ask PROVE TokenInv'
<1>0. /\ live \subseteq Token!Pairs /\ trusted \in BOOLEAN
      /\ trusted => Own \in live
      /\ token.client \in Token!Tokens \cup {0}
      /\ requests \in 0..MaxRequests
  BY DEF TokenInv, Token!TypeOK
<1>1. ASSUME NEW u \in Accounts, NEW i \in BOOLEAN, Token!AskAuthenticate(u, i)
      PROVE  TokenInv'
  <2> DEFINE c == IF ~ i /\ token.client # 0 THEN token.client ELSE requests + 1
             new == Token!Pair(requests + 1, c, u)
  <2>1. CASE Token!Refused("authenticate")
    BY <2>1, RefusedInv
  <2>2. ASSUME NEW answer \in {"pair", "no profile", "lost"},
               Token!Request("authenticate", answer, new),
               trusted' = (trusted /\ answer = "lost" /\ (~ i \/ token.id # u)),
               live' = {p \in live : ~ i \/ p.account # u} \cup {new}
        PROVE  TokenInv'
    <3>1. requests + 1 \in Token!Tokens
      <4>1. requests < MaxRequests
        BY <2>2 DEF Token!Request
      <4> QED BY <1>0, <4>1, RequestIds
    <3>2. new \in Token!Pairs
      BY <1>0, <3>1 DEF Token!Pairs, Token!Pair
    <3>3. Own.account = token.id
      BY DEF Own, Token!Pair
    <3> HIDE DEF new
    <3>4. live' \subseteq Token!Pairs /\ new \in live'
      BY <1>0, <2>2, <3>2
    <3>5. trusted' => answer \notin {"pair", "no profile"} /\ Own \in live'
      BY <1>0, <2>2, <3>3
    <3> QED BY <2>2, <3>2, <3>4, <3>5, RequestInv, Zenon
  <2> QED BY <1>1, <2>1, <2>2, Zenon DEF Token!AskAuthenticate
<1>2. CASE Token!AskRefresh
  <2>1. CASE Token!Refused("refresh")
    BY <2>1, RefusedInv
  <2>2. ASSUME NEW p \in live, NEW answer \in {"pair", "no profile", "lost"},
               Token!Request("refresh", answer, [p EXCEPT !.access = requests + 1]),
               live' = (live \ {p}) \cup {[p EXCEPT !.access = requests + 1]},
               trusted' = FALSE
        PROVE  TokenInv'
    <3>1. requests + 1 \in Token!Tokens
      <4>1. requests < MaxRequests
        BY <2>2 DEF Token!Request
      <4> QED BY <1>0, <4>1, RequestIds
    <3>2. [p EXCEPT !.access = requests + 1] \in Token!Pairs
      BY <1>0, <3>1 DEF Token!Pairs
    <3>3. live' \subseteq Token!Pairs
      BY <1>0, <2>2, <3>2
    <3> QED BY <2>2, <3>2, <3>3, RequestInv, Zenon
  <2> QED BY <1>2, <2>1, <2>2, Zenon DEF Token!AskRefresh
<1>3. CASE Token!AskValidate
  <2>1. CASE Token!Request("validate", "empty", Token!NoCall.pair) /\ UNCHANGED <<live, trusted>>
    BY <1>0, <2>1, RequestInv, Zenon
  <2> QED BY <1>3, <2>1, RefusedInv, Zenon DEF Token!AskValidate
<1>4. ASSUME NEW u \in Accounts, Token!AskSignOut(u) PROVE TokenInv'
  <2>1. ASSUME NEW answer \in {"empty", "lost"},
               Token!Request("sign_out", answer, Token!NoCall.pair),
               live' = {p \in live : p.account # u},
               trusted' = (trusted /\ token.id # u)
        PROVE  TokenInv'
    <3>1. Own.account = token.id
      BY DEF Own, Token!Pair
    <3>2. live' \subseteq Token!Pairs /\ (trusted' => Own \in live')
      BY <1>0, <2>1, <3>1
    <3> QED BY <2>1, <3>2, RequestInv, Zenon
  <2> QED BY <1>4, <2>1, RefusedInv, Zenon DEF Token!AskSignOut
<1>5. CASE Token!AskInvalidate
  <2>1. ASSUME NEW answer \in {"empty", "lost"},
               Token!Request("invalidate", answer, Token!NoCall.pair),
               live' \subseteq live, trusted' = FALSE
        PROVE  TokenInv'
    BY <1>0, <2>1, RequestInv, Zenon
  <2>2. {p \in live : p.access # token.access \/ p.client # token.client} \subseteq live
    OBVIOUS
  <2> QED BY <1>5, <2>1, <2>2, RefusedInv, Zenon DEF Token!AskInvalidate
<1> QED BY <1>1, <1>2, <1>3, <1>4, <1>5, Zenon DEF Token!Ask

\* What an assignment to one field of a token keeps.
LEMMA OneField ==
  ASSUME NEW u \in TokenType
  PROVE  /\ \A x \in Accounts \cup {Token!NoAccount} :
              /\ [u EXCEPT !.username = x] \in TokenType
              /\ [u EXCEPT !.username = x].access = u.access
              /\ [u EXCEPT !.username = x].client = u.client
              /\ [u EXCEPT !.username = x].id = u.id
         /\ \A x \in Token!Tokens \cup {0} :
              /\ [u EXCEPT !.access = x] \in TokenType
              /\ [u EXCEPT !.access = x].access = x
              /\ [u EXCEPT !.access = x].client = u.client
              /\ [u EXCEPT !.access = x].id = u.id
         /\ \A x \in Token!Tokens \cup {0} :
              /\ [u EXCEPT !.client = x] \in TokenType
              /\ [u EXCEPT !.client = x].access = u.access
              /\ [u EXCEPT !.client = x].client = x
              /\ [u EXCEPT !.client = x].id = u.id
         /\ \A x \in Accounts \cup {Token!NoAccount} :
              /\ [u EXCEPT !.id = x] \in TokenType
              /\ [u EXCEPT !.id = x].access = u.access
              /\ [u EXCEPT !.id = x].client = u.client
              /\ [u EXCEPT !.id = x].id = x
         /\ \A x \in Accounts \cup {Token!NoAccount} :
              /\ [u EXCEPT !.name = x] \in TokenType
              /\ [u EXCEPT !.name = x].access = u.access
              /\ [u EXCEPT !.name = x].client = u.client
              /\ [u EXCEPT !.name = x].id = u.id
              /\ [u EXCEPT !.name = x].name = x
BY DEF TokenType

\* An assignment from an answer; the fields in their order.
LEMMA AssignInv == ASSUME TokenInv, Token!Assign PROVE TokenInv'
<1> DEFINE n == call.next
           p == call.pair
           f == Token!Fields[n]
<1>0. /\ n # 6 /\ ~ (call.answer = "no profile" /\ f = "id")
      /\ token' = [token EXCEPT ![f] = Token!Answered(f)]
      /\ call' = [call EXCEPT !.next = @ + 1]
      /\ live' = live /\ requests' = requests /\ reading' = reading
      /\ trusted' = trusted
  BY DEF Token!Assign
<1>1. /\ token \in TokenType /\ call \in CallType /\ live \subseteq Token!Pairs
      /\ requests \in 0..MaxRequests /\ trusted \in BOOLEAN
      /\ reading \in [at : {"none", "checked", "read"}, access : Token!Tokens \cup {0}]
      /\ call.answer \in {"pair", "no profile"} /\ ~ trusted
      /\ call.answer = "pair" => p \in live /\ Assigned
  BY <1>0, Types DEF TokenInv
<1>2. /\ p.access \in Token!Tokens \cup {0} /\ p.client \in Token!Tokens \cup {0}
      /\ p.account \in Accounts \cup {Token!NoAccount}
  <2>1. CASE p \in Token!Pairs
    BY <2>1 DEF Token!Pairs
  <2>2. CASE p = Token!NoCall.pair
    <3>1. p.access = 0 /\ p.client = 0 /\ p.account = Token!NoAccount
      BY <2>2 DEF Token!NoCall, Token!Pair
    <3> QED BY <3>1
  <2> QED BY <1>1, <2>1, <2>2 DEF CallType
<1>3. /\ call' \in CallType /\ call'.next = n + 1 /\ call'.pair = p
      /\ call'.answer = call.answer /\ n \in 1..5
  <2>1. n \in 1..6
    BY <1>1 DEF CallType
  <2>2. \A m \in 1..6 : m # 6 => m \in 1..5 /\ m + 1 \in 1..6
    OBVIOUS
  <2>3. n \in 1..5 /\ n + 1 \in 1..6
    BY <1>0, <2>1, <2>2
  <2> QED BY <1>0, <1>1, <2>3 DEF CallType
<1>4. /\ token' \in TokenType
      /\ n = 2 => token'.access = p.access
      /\ n = 3 => token'.client = p.client
      /\ n = 4 => token'.id = p.account
      /\ n = 5 => token'.name = p.account
      /\ n # 2 => token'.access = token.access
      /\ n # 3 => token'.client = token.client
      /\ n # 4 => token'.id = token.id
  <2>1. CASE n = 1
    <3>1. f = "username"
      BY <2>1 DEF Token!Fields
    <3>2. Token!Answered(f) = p.account
      BY <3>1 DEF Token!Answered
    <3>3. token' = [token EXCEPT !.username = p.account]
      BY <1>0, <3>1, <3>2
    <3> HIDE DEF n, p, f
    <3>4. /\ token' \in TokenType
          /\ token'.access = token.access
          /\ token'.client = token.client
          /\ token'.id = token.id
      BY <1>1, <1>2, <3>3, OneField
    <3>5. n # 2 /\ n # 3 /\ n # 4 /\ n # 5
      BY <1>3, <2>1
    <3> QED BY <2>1, <3>4, <3>5, Zenon
  <2>2. CASE n = 2
    <3>1. f = "access"
      BY <2>2 DEF Token!Fields
    <3>2. Token!Answered(f) = p.access
      BY <3>1 DEF Token!Answered
    <3>3. token' = [token EXCEPT !.access = p.access]
      BY <1>0, <3>1, <3>2
    <3> HIDE DEF n, p, f
    <3>4. /\ token' \in TokenType
          /\ token'.access = p.access
          /\ token'.client = token.client
          /\ token'.id = token.id
      BY <1>1, <1>2, <3>3, OneField
    <3>5. n # 3 /\ n # 4 /\ n # 5
      BY <1>3, <2>2
    <3> QED BY <2>2, <3>4, <3>5, Zenon
  <2>3. CASE n = 3
    <3>1. f = "client"
      BY <2>3 DEF Token!Fields
    <3>2. Token!Answered(f) = p.client
      BY <3>1 DEF Token!Answered
    <3>3. token' = [token EXCEPT !.client = p.client]
      BY <1>0, <3>1, <3>2
    <3> HIDE DEF n, p, f
    <3>4. /\ token' \in TokenType
          /\ token'.access = token.access
          /\ token'.client = p.client
          /\ token'.id = token.id
      BY <1>1, <1>2, <3>3, OneField
    <3>5. n # 2 /\ n # 4 /\ n # 5
      BY <1>3, <2>3
    <3> QED BY <2>3, <3>4, <3>5, Zenon
  <2>4. CASE n = 4
    <3>1. f = "id"
      BY <2>4 DEF Token!Fields
    <3>2. Token!Answered(f) = p.account
      BY <3>1 DEF Token!Answered
    <3>3. token' = [token EXCEPT !.id = p.account]
      BY <1>0, <3>1, <3>2
    <3> HIDE DEF n, p, f
    <3>4. /\ token' \in TokenType
          /\ token'.access = token.access
          /\ token'.client = token.client
          /\ token'.id = p.account
      BY <1>1, <1>2, <3>3, OneField
    <3>5. n # 2 /\ n # 3 /\ n # 5
      BY <1>3, <2>4
    <3> QED BY <2>4, <3>4, <3>5, Zenon
  <2>5. CASE n = 5
    <3>1. f = "name"
      BY <2>5 DEF Token!Fields
    <3>2. Token!Answered(f) = p.account
      BY <3>1 DEF Token!Answered
    <3>3. token' = [token EXCEPT !.name = p.account]
      BY <1>0, <3>1, <3>2
    <3> HIDE DEF n, p, f
    <3>4. /\ token' \in TokenType
          /\ token'.access = token.access
          /\ token'.client = token.client
          /\ token'.id = token.id
          /\ token'.name = p.account
      BY <1>1, <1>2, <3>3, OneField
    <3>5. n # 2 /\ n # 3 /\ n # 4
      BY <1>3, <2>5
    <3> QED BY <2>5, <3>4, <3>5, Zenon
  <2> QED BY <1>3, <2>1, <2>2, <2>3, <2>4, <2>5
<1>5. call.answer = "pair" => Assigned'
  <2>1. /\ n > 2 => token.access = p.access
        /\ n > 3 => token.client = p.client
        /\ n > 4 => token.id = p.account
        \/ call.answer # "pair"
    BY <1>1 DEF Assigned
  <2>2. /\ n + 1 > 2 => n = 2 \/ n > 2
        /\ n + 1 > 3 => n # 2 /\ (n = 3 \/ n > 3)
        /\ n + 1 > 4 => n \notin {2, 3} /\ (n = 4 \/ n > 4)
        /\ n + 1 > 5 => n = 5
    BY <1>3
  <2> HIDE DEF n, p, f
  <2> SUFFICES ASSUME call.answer = "pair"
               PROVE  /\ n + 1 > 2 => token'.access = p.access
                      /\ n + 1 > 3 => token'.client = p.client
                      /\ n + 1 > 4 => token'.id = p.account
                      /\ n + 1 > 5 => token'.name = p.account
    BY <1>3 DEF Assigned
  <2>3. n + 1 > 2 => token'.access = p.access
    BY <1>4, <2>1, <2>2
  <2>4. n + 1 > 3 => token'.client = p.client
    BY <1>4, <2>1, <2>2
  <2>5. n + 1 > 4 => token'.id = p.account
    BY <1>4, <2>1, <2>2
  <2>6. n + 1 > 5 => token'.name = p.account
    BY <1>4, <2>2
  <2> QED BY <2>3, <2>4, <2>5, <2>6
<1>6. Token!TypeOK'
  BY <1>0, <1>1, <1>3, <1>4, Zenon DEF Token!TypeOK, TokenType, CallType
<1>7. /\ call'.next # 6 => call'.answer \in {"pair", "no profile"}
      /\ ~ trusted'
  BY <1>0, <1>1, <1>3
<1>8. call'.answer = "pair" => call'.pair \in live' /\ Assigned'
  <2>1. call.answer = "pair" => p \in live'
    BY <1>0, <1>1
  <2> HIDE DEF n, p, f
  <2> QED BY <1>3, <1>5, <2>1
<1> QED BY <1>6, <1>7, <1>8, Zenon DEF TokenInv

LEMMA ReturnInv == ASSUME TokenInv, Token!Return PROVE TokenInv'
<1> DEFINE p == call.pair
<1>0. /\ call.next = 6 \/ call.answer = "no profile"
      /\ call' = Token!NoCall /\ trusted' = (trusted \/ call.answer = "pair")
      /\ token' = token /\ live' = live /\ requests' = requests /\ reading' = reading
  BY DEF Token!Return
<1>1. /\ token \in TokenType /\ live \subseteq Token!Pairs
      /\ requests \in 0..MaxRequests
      /\ reading \in [at : {"none", "checked", "read"}, access : Token!Tokens \cup {0}]
      /\ call.answer = "pair" => p \in live /\ Assigned
      /\ trusted => Own \in live /\ token.id = token.name
      /\ trusted \in BOOLEAN
  BY Types DEF TokenInv
<1>2. trusted' => Own \in live /\ token.id = token.name
  <2>1. CASE call.answer = "pair"
    <3>1. /\ token.access = p.access /\ token.client = p.client
          /\ token.id = p.account /\ token.name = p.account
      BY <1>0, <1>1, <2>1 DEF Assigned
    <3>2. p \in live /\ p \in Token!Pairs
      BY <1>1, <2>1
    <3>3. Own = p
      BY <3>1, <3>2 DEF Own, Token!Pair, Token!Pairs
    <3> QED BY <3>1, <3>2, <3>3
  <2> QED BY <1>0, <1>1, <2>1
<1>3. Own' = Own
  BY <1>0 DEF Own, Token!Pair
<1>4. call' \in CallType /\ call'.next = 6 /\ call'.answer = "none"
  BY <1>0, NoCallType
<1>5. Token!TypeOK'
  <2>1. trusted' \in BOOLEAN
    BY <1>0
  <2> QED BY <1>0, <1>1, <1>4, <2>1, Zenon DEF Token!TypeOK, TokenType, CallType
<1> QED BY <1>0, <1>2, <1>3, <1>4, <1>5 DEF TokenInv

\* join reads the token and leaves it as it is.
LEMMA ReadingInv ==
  ASSUME TokenInv, UNCHANGED <<token, live, requests, call, trusted>>,
         reading' \in [at : {"none", "checked", "read"}, access : Token!Tokens \cup {0}]
  PROVE  TokenInv'
<1>1. Token!TypeOK'
  <2>1. Token!TypeOK
    BY DEF TokenInv
  <2> HIDE DEF Token!Nil, Token!NoAccount, Token!Done
  <2> QED BY <2>1, Zenon DEF Token!TypeOK, Token!Nil
<1>2. Own' = Own /\ Assigned' = Assigned
  BY DEF Own, Assigned, Token!Pair
<1> QED BY <1>1, <1>2 DEF TokenInv

LEMMA TokenInvStep == TokenInv /\ [BotNext]_botVars => TokenInv'
<1> SUFFICES ASSUME TokenInv, [BotNext]_botVars PROVE TokenInv'
  OBVIOUS
<1>0. /\ token \in TokenType
      /\ reading \in [at : {"none", "checked", "read"}, access : Token!Tokens \cup {0}]
  BY Types DEF TokenInv
<1>1. CASE UNCHANGED tokenVars
  BY <1>0, <1>1, ReadingInv DEF tokenVars
<1>2. CASE Token!JoinChecks
  BY <1>0, <1>2, ReadingInv DEF Token!JoinChecks
<1>3. CASE Token!JoinReads
  BY <1>0, <1>3, ReadingInv DEF Token!JoinReads, TokenType
<1>4. ASSUME NEW a \in BOOLEAN, Token!AskJoin(a) PROVE TokenInv'
  BY <1>4, ReadingInv DEF Token!AskJoin, Token!NotReading
<1> QED BY <1>1, <1>2, <1>3, <1>4, BotSteps, AskInv, AssignInv, ReturnInv, Zenon
        DEF Token!Next

THEOREM TokenInvariance == BotSpec => []TokenInv
<1>1. BotInit => TokenInv
  BY TokenInit DEF BotInit
<1> QED BY <1>1, TokenInvStep, PTL DEF BotSpec

\* The token is usable from a successful authenticate or refresh until the
\* program ends it, for any numbers of accounts and requests, whatever answers
\* are lost and whatever calls are refused in between.
THEOREM TokenTrusted == BotSpec => []TrustedIsLive
<1>1. TokenInv => TrustedIsLive
  BY DEF TokenInv, TrustedIsLive, Token!TrustedIsLive, Own
<1> QED BY <1>1, TokenInvariance, PTL

-----------------------------------------------------------------------------
(***************************************************************************)
(* A join is recorded before the thread answers, and the packet that the   *)
(* thread reacts to stays the same until then.                             *)
(***************************************************************************)

\* A process moves alone, and not to the answer of an encryption request.
Local(p) ==
  /\ \A t \in Ids \ {p} : pc'[t] = pc[t] /\ job'[t] = job[t]
  /\ p \in Ids => pc'[p] \notin {"answer", "wrap"}

LEMMA RaisesLocal ==
  ASSUME TypeOK, NEW t \in Ids, NEW exc, Raises(t, exc) PROVE Local(t)
BY DEF Raises, Goto, Local, TypeOK, Procs

LEMMA EndTurnLocal ==
  ASSUME TypeOK, NEW t \in Ids, NEW bad, EndTurn(t, bad) PROVE Local(t)
BY RaisesLocal DEF EndTurn, NewTurn, Goto, Local, TypeOK, Procs

LEMMA OnwardLocal ==
  ASSUME TypeOK, NEW t \in Ids, NEW n, NEW bad, Onward(t, n, bad) PROVE Local(t)
BY EndTurnLocal DEF Onward, Goto, Local, TypeOK, Procs

LEMMA ResumesLocal ==
  ASSUME TypeOK, NEW t \in Ids, Resumes(t) PROVE Local(t)
<1>1. CASE \E exc : Raises(t, exc)
  BY <1>1, RaisesLocal
<1>2. CASE EndTurn(t, job[t].bad)
  BY <1>2, EndTurnLocal
<1>3. CASE Goto(t, "narrow") /\ UNCHANGED job
  BY <1>3 DEF Goto, Local, TypeOK, Procs
<1>4. CASE /\ Goto(t, "turn")
           /\ job' = [job EXCEPT ![t] =
                [Locals(t, 0, "none", "none") EXCEPT !.kicked = TRUE]]
  BY <1>4 DEF Goto, Local, TypeOK, Procs
<1> QED BY <1>1, <1>2, <1>3, <1>4, Zenon DEF Resumes

LEMMA CallFailsLocal ==
  ASSUME TypeOK, NEW p \in Procs, NEW exc, CallFails(p, exc) PROVE Local(p)
BY RaisesLocal DEF CallFails, Goto, Local, TypeOK, Procs

\* Besides a join only an offline server's request leads to the answer.
LEMMA AnswerSteps ==
  ASSUME TypeOK, NEW t \in Ids, pc'[t] \in {"answer", "wrap"},
         \/ \E u \in Ids : ThreadStep(u) \/ Server(u)
         \/ \E p \in Procs : CallStep(p)
         \/ \E c \in Callers : CallerStep(c)
         \/ UNCHANGED vars
  PROVE  \/ pc[t] \in {"answer", "wrap"} /\ job'[t].pkt = job[t].pkt
         \/ job'[t].pkt = "offline encryption request"
<1>0. /\ pc \in [Procs -> ThreadPCs \cup CallerPCs] /\ job \in [Ids -> JobType]
      /\ \A u \in Ids : u \in Procs
  BY DEF TypeOK, Procs
<1>1. ASSUME NEW p \in Procs, Local(p)
      PROVE  pc[t] \in {"answer", "wrap"} /\ job'[t].pkt = job[t].pkt
  BY <1>1 DEF Local
<1>2. CASE UNCHANGED <<pc, job>>
  BY <1>2
<1>3. ASSUME NEW u \in Ids, Goto(u, "answer") \/ Goto(u, "wrap"), UNCHANGED job
      PROVE  u = t \/ (pc[t] \in {"answer", "wrap"} /\ job'[t].pkt = job[t].pkt)
  BY <1>0, <1>3 DEF Goto
<1>4. ASSUME NEW u \in Ids, ThreadStep(u)
      PROVE  \/ pc[t] \in {"answer", "wrap"} /\ job'[t].pkt = job[t].pkt
             \/ job'[t].pkt = "offline encryption request"
  <2>1. CASE Turn(u) \/ Wait(u) \/ Final(u)
    <3>1. Local(u)
      BY <1>0, <2>1 DEF Local, Turn, Wait, Final, Goto
    <3> QED BY <1>0, <1>1, <3>1
  <2>2. CASE Write(u) \/ Written(u)
    <3>1. \/ Raises(u, "attribute") \/ \E n, bad : Onward(u, n, bad)
          \/ UNCHANGED pc /\ job' = [job EXCEPT ![u].num = @ + 1]
      BY <2>2, Zenon DEF Write, Written
    <3>2. CASE UNCHANGED pc /\ job' = [job EXCEPT ![u].num = @ + 1]
      <4>1. pc[u] = "writing" /\ t # u
        BY <1>0, <2>2, <3>2 DEF Write, Written
      <4> QED BY <1>0, <3>2, <4>1
    <3>3. CASE Raises(u, "attribute") \/ \E n, bad : Onward(u, n, bad)
      <4>1. Local(u)
        BY <3>3, RaisesLocal, OnwardLocal
      <4> QED BY <1>0, <1>1, <4>1
    <3> QED BY <3>1, <3>2, <3>3
  <2>3. CASE Read(u)
    <3>1. \/ \E exc : Raises(u, exc)
          \/ EndTurn(u, job[u].bad)
          \/ Goto(u, "stuck") /\ UNCHANGED job
          \/ \E k : /\ Goto(u, "react")
                    /\ job' = [job EXCEPT ![u].pkt = k, ![u].num = @ + 1]
      BY <2>3, Zenon DEF Read
    <3>2. Local(u)
      BY <1>0, <3>1, RaisesLocal, EndTurnLocal DEF Local, Goto
    <3> QED BY <1>0, <1>1, <3>2
  <2>4. CASE React(u)
    <3>1. CASE Goto(u, "answer") /\ UNCHANGED job /\ job[u].pkt = "offline encryption request"
      BY <1>3, <3>1
    <3>2. CASE \/ Goto(u, "join") /\ UNCHANGED job
               \/ Goto(u, "closing") /\ job' = [job EXCEPT ![u].via = conn.reactor]
      <4>1. Local(u)
        BY <1>0, <3>2 DEF Local, Goto
      <4> QED BY <1>0, <1>1, <4>1
    <3>3. CASE Raises(u, "login") \/ Handled(u)
      <4>1. Local(u)
        BY <3>3, RaisesLocal, OnwardLocal DEF Handled
      <4> QED BY <1>0, <1>1, <4>1
    <3> QED BY <2>4, <3>1, <3>2, <3>3, Zenon DEF React
  <2>5. CASE Answer(u)
    <3>1. CASE Goto(u, "wrap") /\ UNCHANGED job
      <4>1. pc[u] = "answer"
        BY <2>5 DEF Answer
      <4> QED BY <1>3, <3>1, <4>1
    <3>2. CASE \E exc : Raises(u, exc)
      <4>1. Local(u)
        BY <3>2, RaisesLocal
      <4> QED BY <1>0, <1>1, <4>1
    <3> QED BY <2>5, <3>1, <3>2, Zenon DEF Answer
  <2>6. CASE Wrap(u)
    <3>1. Local(u)
      BY <2>6, OnwardLocal DEF Wrap, Handled
    <3> QED BY <1>0, <1>1, <3>1
  <2>7. CASE Raise(u) \/ Handle(u) \/ Clear(u) \/ Narrow(u) \/ Report(u) \/ Exit(u)
    <3>1. \E l \in {"handle", "clear", "narrow", "dial", "report", "final"} :
            pc' = [pc EXCEPT ![u] = l]
      BY <2>7, Zenon DEF Raise, Handle, Clear, Narrow, Report, Exit, Goto
    <3>2. \/ UNCHANGED job
          \/ job' = [job EXCEPT ![u].via = "handler"]
          \/ \E j : job' = [job EXCEPT ![u] = j]
          \/ \E x : job' = [job EXCEPT ![u].told = x]
      BY <2>7, Zenon DEF Raise, Handle, Clear, Narrow, Report, Exit
    <3>3. \A v \in Ids \ {u} : job'[v] = job[v]
      BY <1>0, <3>2
    <3>4. Local(u)
      BY <1>0, <3>1, <3>3 DEF Local
    <3> QED BY <1>0, <1>1, <3>4
  <2>8. CASE DialAgain(u)
    <3>1. CallFails(u, "state") \/ (Goto(u, "opening") /\ UNCHANGED job)
      BY <2>8, Zenon DEF DialAgain, Dial
    <3>2. Local(u)
      BY <1>0, <3>1, CallFailsLocal DEF Local, Goto
    <3> QED BY <1>0, <1>1, <3>2
  <2> QED BY <1>4, <2>1, <2>2, <2>3, <2>4, <2>5, <2>6, <2>7, <2>8 DEF ThreadStep
<1>6. ASSUME NEW p \in Procs, CallStep(p)
      PROVE  pc[t] \in {"answer", "wrap"} /\ job'[t].pkt = job[t].pkt
  <2>1. CASE UNCHANGED <<pc, job>>
    BY <1>2, <2>1
  <2>2. CASE \/ p \in Ids /\ (Resumes(p) \/ \E exc : Raises(p, exc))
             \/ \E exc : CallFails(p, exc)
             \/ (Goto(p, "idle") \/ Goto(p, "going")) /\ UNCHANGED job
    <3>1. Local(p)
      BY <1>0, <2>2, RaisesLocal, ResumesLocal, CallFailsLocal DEF Local, Goto
    <3> QED BY <1>1, <3>1
  <2>3. CASE Go(p)
    <3>1. ASSUME NEW d, NEW first \in {"turn", "wait"},
                 NEW next \in {"idle", "final", "raise", "turn"},
                 pc' = [pc EXCEPT ![d] = first, ![p] = next]
          PROVE  t # p /\ pc'[t] = pc[t]
      BY <1>0, <3>1
    <3>2. \E d : \E first \in {"turn", "wait"}, next \in {"idle", "final", "raise", "turn"} :
            pc' = [pc EXCEPT ![d] = first, ![p] = next]
      BY <2>3, Zenon DEF Go
    <3>3. t # p /\ pc'[t] = pc[t]
      BY <3>1, <3>2
    <3>4. job'[t] = job[t]
      BY <1>0, <2>3, <3>3 DEF Go
    <3> QED BY <3>3, <3>4
  <2> QED BY <1>6, <2>1, <2>2, <2>3, Zenon DEF CallStep, Flush, Close, Refuse, Open
<1>7. ASSUME NEW c \in Callers, CallerStep(c)
      PROVE  pc[t] \in {"answer", "wrap"} /\ job'[t].pkt = job[t].pkt
  <2>1. c \in Procs
    BY DEF Procs
  <2>2. CASE UNCHANGED <<pc, job>>
    BY <1>2, <2>2
  <2>3. CASE \/ \E exc : CallFails(c, exc)
             \/ (Goto(c, "opening") \/ Goto(c, "closing")) /\ UNCHANGED job
    <3>1. Local(c)
      BY <1>0, <2>1, <2>3, CallFailsLocal DEF Local, Goto
    <3> QED BY <1>1, <2>1, <3>1
  <2> QED BY <1>7, <2>2, <2>3, Zenon DEF CallerStep, Connect, Dial, Disconnect, Chat, ChatNow
<1>8. ASSUME NEW s \in Ids, Server(s)
      PROVE  pc[t] \in {"answer", "wrap"} /\ job'[t].pkt = job[t].pkt
  BY <1>2, <1>8 DEF Server
<1> QED BY <1>2, <1>4, <1>6, <1>7, <1>8, Zenon DEF vars

BotInv == ConnInv /\ TokenInv /\ joined \subseteq Ids /\ JoinedFirst

LEMMA BotInvInit == BotInit => BotInv
<1>1. ASSUME BotInit PROVE JoinedFirst /\ joined \subseteq Ids
  BY <1>1 DEF BotInit, Init, JoinedFirst, Procs
<1> QED BY <1>1, ConnInvInit, TokenInit DEF BotInit, BotInv

LEMMA BotInvStep == BotInv /\ [BotNext]_botVars => BotInv'
<1> SUFFICES ASSUME BotInv, [BotNext]_botVars PROVE BotInv'
  OBVIOUS
<1>1. ConnInv' /\ TokenInv' /\ TypeOK
  BY BotSteps, ConnInvStep, TokenInvStep DEF BotInv, ConnInv
<1>2. joined' \subseteq Ids /\ joined \subseteq joined'
  <2>1. CASE \E t \in Ids : BotJoin(t)
    BY <2>1 DEF BotJoin, BotInv
  <2>2. CASE UNCHANGED joined
    BY <2>2 DEF BotInv
  <2> QED BY <2>1, <2>2, Zenon
          DEF BotNext, BotReads, BotReturn, BotAsk, BotConnect, BotChat, Alone,
              botVars
<1>3. JoinedFirst'
  <2>1. SUFFICES ASSUME NEW t \in Ids, pc'[t] \in {"answer", "wrap"},
                        job'[t].pkt = "encryption request"
                 PROVE  t \in joined'
    BY DEF JoinedFirst
  <2>2. CASE \E u \in Ids : BotJoin(u)
    <3>1. PICK u \in Ids, a \in BOOLEAN :
            /\ Join(u, a) /\ (a => joined' = joined \cup {u})
      BY <2>2 DEF BotJoin
    <3>2. CASE u = t /\ a
      BY <3>1, <3>2
    <3>3. CASE u = t /\ ~ a
      <4>1. Local(t)
        BY <1>1, <3>1, <3>3, RaisesLocal DEF Join
      <4> QED BY <2>1, <4>1 DEF Local
    <3>4. CASE u # t
      <4>1. pc'[t] = pc[t] /\ job'[t] = job[t]
        <5>1. CASE a
          BY <1>1, <3>1, <3>4, <5>1 DEF Join, Goto, TypeOK, Procs
        <5>2. CASE ~ a
          BY <1>1, <3>1, <3>4, <5>2, RaisesLocal DEF Join, Local
        <5> QED BY <5>1, <5>2
      <4> QED BY <1>2, <2>1, <4>1 DEF BotInv, JoinedFirst
    <3> QED BY <3>2, <3>3, <3>4
  <2>3. CASE ~ \E u \in Ids : BotJoin(u)
    <3>1. \/ \E u \in Ids : ThreadStep(u) \/ Server(u)
          \/ \E p \in Procs : CallStep(p)
          \/ \E c \in Callers : CallerStep(c)
          \/ UNCHANGED vars
      BY <2>3, Zenon DEF BotNext, BotReads, BotReturn, BotAsk, BotConnect,
                         BotChat, CallerStep, botVars
    <3>2. pc[t] \in {"answer", "wrap"} /\ job'[t].pkt = job[t].pkt
      BY <1>1, <2>1, <3>1, AnswerSteps
    <3> QED BY <1>2, <2>1, <3>2 DEF BotInv, JoinedFirst
  <2> QED BY <2>2, <2>3
<1> QED BY <1>1, <1>2, <1>3 DEF BotInv

\* On an online server the key is answered, and play goes on, only after the
\* session service has accepted the join of that thread, whatever the program
\* does to the token meanwhile and however often it connects again.
THEOREM JoinBeforePlay == BotSpec => []JoinedFirst
<1>2. BotInv => JoinedFirst
  BY DEF BotInv
<1> QED BY BotInvInit, BotInvStep, <1>2, PTL DEF BotSpec

\* Every variable of the program's session keeps its type.
THEOREM BotTypeCorrect == BotSpec => []BotTypeOK
<1>2. BotInv => BotTypeOK
  BY DEF BotInv, ConnInv, TokenInv, BotTypeOK
<1> QED BY BotInvInit, BotInvStep, <1>2, PTL DEF BotSpec
=============================================================================
