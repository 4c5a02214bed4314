---------------------------- MODULE GithubSignIn ----------------------------
(***************************************************************************)
(* How the github service comes by the tokens of users: OAuth of           *)
(* rci/common/github.py, and the handlers of rci/services/github/          *)
(* service.py that drive it.                                               *)
(*                                                                         *)
(* A browser asks for /login or /registraion and is sent on to GitHub with *)
(* a new state, and from there to /oauth2 with that state and a code.      *)
(* That request has two awaits, the exchange of the code for a token and   *)
(* the question whose token it is; other requests run in between.          *)
(***************************************************************************)
EXTENDS Naturals

CONSTANTS
    User,      \* those who sign in
    State,     \* the states that are drawn: a bound on the sign-ins
    Request    \* the requests to /oauth2 that may be in flight together

\* What /login and /registraion ask for.
Scopes == {"read", "hooks"}
Token == [user : User, scopes : Scopes]

\* No user and no scopes: a state that is not drawn, a user without a token.
None == [user |-> "none", scopes |-> "none"]

ASSUME SignInAssumption == "none" \notin User

Idle == [step |-> "idle"]
InFlight == [step : {"exchange", "user"}, state : State]

VARIABLES
    visits,     \* who was sent to GitHub with a state, and for which scopes
    requested,  \* _requested_scopes: the states that wait for an answer
    calls,      \* the requests to /oauth2, at their awaits
    exchanges,  \* how often GitHub was asked for the token of a state
    users       \* the store of tokens

signInVars == <<visits, requested, calls, exchanges, users>>

SignInTypeOK ==
    /\ visits \in [State -> Token \union {None}]
    /\ requested \subseteq State
    /\ calls \in [Request -> {Idle} \union InFlight]
    /\ exchanges \in [State -> Nat]
    /\ users \in [User -> Token \union {None}]

SignInInit ==
    /\ visits = [s \in State |-> None]
    /\ requested = {}
    /\ calls = [r \in Request |-> Idle]
    /\ exchanges = [s \in State |-> 0]
    /\ users = [u \in User |-> None]

------------------------------------------------------------------------------
(* _http_login and _http_registraion; os.urandom draws no state twice.     *)
SendOn(s, u, scopes) ==
    /\ visits[s] = None
    /\ visits' = [visits EXCEPT ![s] = [user |-> u, scopes |-> scopes]]
    /\ requested' = requested \union {s}
    /\ UNCHANGED <<calls, exchanges, users>>

(* Seeded fault: the state is taken when the exchange has been answered.   *)
Redeem_Later(r, s) ==
    /\ calls[r] = Idle
    /\ visits[s] # None
    /\ s \in requested
    /\ calls' = [calls EXCEPT ![r] = [step |-> "exchange", state |-> s]]
    /\ exchanges' = [exchanges EXCEPT ![s] = @ + 1]
    /\ UNCHANGED <<visits, requested, users>>

(* GitHub sends the browser to /oauth2, and the user may load that page    *)
(* again at any time: OAuth.oauth up to its await.                         *)
Redeem(r, s) ==
    /\ calls[r] = Idle
    /\ visits[s] # None
    /\ s \in requested
    /\ requested' = requested \ {s}
    /\ calls' = [calls EXCEPT ![r] = [step |-> "exchange", state |-> s]]
    /\ exchanges' = [exchanges EXCEPT ![s] = @ + 1]
    /\ UNCHANGED <<visits, users>>

(* UnknownState: the state was drawn before a restart, or taken.           *)
Unknown(r, s) ==
    /\ calls[r] = Idle
    /\ visits[s] # None
    /\ s \notin requested
    /\ UNCHANGED signInVars

(* GitHub answers with a token; the client asks for its user.              *)
Exchanged(r) ==
    /\ calls[r].step = "exchange"
    /\ calls' = [calls EXCEPT ![r].step = "user"]
    /\ UNCHANGED <<visits, requested, exchanges, users>>

(* GitHub refuses, cannot be reached, or answers something else: a request *)
(* that raises leaves nothing behind but the state that it took.           *)
Raises(r) ==
    /\ calls[r] # Idle
    /\ calls' = [calls EXCEPT ![r] = Idle]
    /\ UNCHANGED <<visits, requested, exchanges, users>>

(* GitHub names the user.  The token is stored, then the request raises    *)
(* for want of self.url, and session_resp does not come to save the        *)
(* session, whose token is lost.                                           *)
Named(r) ==
    /\ calls[r].step = "user"
    /\ LET token == visits[calls[r].state]
       IN  users' = [users EXCEPT ![token.user] = token]
    /\ calls' = [calls EXCEPT ![r] = Idle]
    /\ UNCHANGED <<visits, requested, exchanges>>

(* A new service object, after a reload or a restart: the states were kept *)
(* in memory, the tokens in a file.                                        *)
ServiceRestarts ==
    /\ requested' = {}
    /\ calls' = [r \in Request |-> Idle]
    /\ UNCHANGED <<visits, exchanges, users>>

SignInStep ==
    \/ \E s \in State, u \in User, scopes \in Scopes : SendOn(s, u, scopes)
    \/ \E r \in Request, s \in State : Redeem(r, s) \/ Unknown(r, s)
    \/ \E r \in Request : Exchanged(r) \/ Raises(r) \/ Named(r)

SignInSpec == SignInInit /\ [][SignInStep \/ ServiceRestarts]_signInVars

------------------------------------------------------------------------------
(* Properties.                                                             *)

(* However often a browser comes back with a state, before or after the    *)
(* answer of GitHub or a restart, its code is exchanged once.              *)
ExchangedOnce == \A s \in State : exchanges[s] <= 1

(* The token that is stored for a user was issued to that user, for the    *)
(* scopes of a visit this service had asked for, whatever requests were in *)
(* flight meanwhile.                                                       *)
TokensGenuine ==
    \A u \in User : users[u] # None =>
        \E s \in State : exchanges[s] = 1 /\ visits[s] = users[u] /\ visits[s].user = u

==============================================================================
