----------------------------- MODULE WebServer -----------------------------
(***************************************************************************)
(* Logging in to the web server (webserver/oidc/oidc.go) from one browser, *)
(* whose tabs and scripts share one cookie, and forcing runs               *)
(* (webserver/webserver.go, api/v1beta1/rbac.go).  The server keeps        *)
(* nothing but the key its cookies are encrypted with: a session is in the *)
(* cookie a request was sent with, and in the one its response sets when   *)
(* it arrives.                                                             *)
(*                                                                         *)
(* State, nonce and code verifier of a session are fresh random values: a  *)
(* name, its flow, stands for the three, for the code the issuer gives out *)
(* for them and for the token that code is exchanged for.  An              *)
(* Authenticator is configured.  The run that is queued is RunRequests'.   *)
(***************************************************************************)
EXTENDS Naturals, FiniteSets

CONSTANTS Clients,  \* tabs of the browser, or the script of the page in one
          Pages,    \* what can be asked for
          Users,    \* who may be at the keyboard: email and groups
          Bindings, \* the values spec.rbac may take
          None,
          MaxFaults \* bound: restarts, expired tokens and calls of the issuer that fail

\* Named by the client whose request starts it; that many are never all in use.
Flows == Clients \X (0 .. Cardinality(Clients) + 1)
By(f) == f[1]

\* userSession: `pending` while State and CodeVerifier are set.
Session == [key : 0 .. MaxFaults, flow : Flows, pending : BOOLEAN,
            token : Flows \cup {None}, back : Pages \cup {None}]

Answers == {"page", "failed", "issuer", "error", "refused", "queued"}

ASSUME WebServerAssumption ==
  /\ IsFiniteSet(Clients)
  /\ None \notin Clients \cup Pages \cup Flows \cup Session \cup Answers
  /\ (Answers \cup {"callback", "forceRun"}) \cap Pages = {}
  /\ MaxFaults \in Nat

VARIABLES
  key,     \* secureCookie: which of the keys the process has made
  cookie,  \* what the browser has stored
  at,      \* where each client is
  script,  \* a script makes the call, which does not follow to the issuer
  asked,   \* what the user, or the script, has asked for
  path,    \* what the request under way is for
  sent,    \* the cookie the request carries
  flow,    \* the flow a client is at the issuer with, or is sent back with
  denied,  \* the issuer has sent the client back with an error
  reply,   \* the response under way: the cookie it sets and where it leads
  expired, \* tokens that are not active any more
  faults   \* number of faults so far

client == <<at, script, asked, path, sent, flow, denied, reply>>
vars == <<key, cookie, client, expired, faults>>

NoReply == [set |-> None, to |-> None]

TypeOK ==
  /\ key \in 0 .. MaxFaults
  /\ cookie \in Session \cup {None}
  /\ at \in [Clients -> {"idle", "sent", "reply", "login"}]
  /\ script \in [Clients -> BOOLEAN]
  /\ asked \in [Clients -> Pages \cup {None}]
  /\ path \in [Clients -> Pages \cup {None, "callback", "forceRun"}]
  /\ sent \in [Clients -> Session \cup {None}]
  /\ flow \in [Clients -> Flows \cup {None}]
  /\ denied \in [Clients -> BOOLEAN]
  /\ reply \in [Clients -> [set : Session \cup {None}, to : Pages \cup {None} \cup Answers]]
  /\ \A c \in Clients : at[c] = "reply" <=> reply[c].to # None
  /\ expired \subseteq Flows
  /\ faults \in 0 .. MaxFaults

Init ==
  /\ key = 0 /\ cookie = None
  /\ at = [c \in Clients |-> "idle"]
  /\ script = [c \in Clients |-> FALSE]
  /\ asked = [c \in Clients |-> None]
  /\ path = [c \in Clients |-> None]
  /\ sent = [c \in Clients |-> None]
  /\ flow = [c \in Clients |-> None]
  /\ denied = [c \in Clients |-> FALSE]
  /\ reply = [c \in Clients |-> NoReply]
  /\ expired = {}
  /\ faults = 0

---------------------------------------------------------------------------
\* Sessions

FlowOf(s) == IF s = None THEN {} ELSE {s.flow}

InUse == FlowOf(cookie) \cup
  UNION {FlowOf(sent[c]) \cup FlowOf(reply[c].set) \cup ({flow[c]} \ {None})
           : c \in Clients}

\* The random values of a new session.
Fresh(c) ==
  CHOOSE f \in Flows \ InUse :
    /\ By(f) = c
    /\ \A g \in Flows \ InUse : By(g) = c => f[2] <= g[2]

\* newUserSessionFromRequest: cookies of an earlier process cannot be decoded.
Decodes(s) == s # None /\ s.key = key

\* UserInfo and userInfo: the token is of this session, and active.
LoggedIn(s) ==
  /\ Decodes(s)
  /\ s.token = s.flow
  /\ s.token \notin expired

\* A session that waits for its callback is gone on with.
PendingOrNew(c, p) ==
  IF Decodes(sent[c]) /\ sent[c].pending
    THEN sent[c]
    ELSE [key |-> key, flow |-> Fresh(c), pending |-> TRUE, token |-> None, back |-> p]

\* newUserSession
NewSession(c, p) ==
  [key |-> key, flow |-> Fresh(c), pending |-> TRUE, token |-> None, back |-> p]

\* The token is looked at before the code has been exchanged for it.
AcceptsLoggedIn(s, f) == LoggedIn(s) /\ s.flow = f

\* processCallback: the session waits for this answer of the issuer.
Accepts(s, f) == Decodes(s) /\ s.pending /\ s.flow = f

\* The session the callback saves has lost the token.
Untoken(s) == [s EXCEPT !.pending = FALSE, !.back = None]

\* The token is kept, State, CodeVerifier and RedirectPath are cleared.
Exchanged(s) == [s EXCEPT !.pending = FALSE, !.back = None, !.token = s.flow]

---------------------------------------------------------------------------
\* Requests

Send(c, p) ==
  /\ at' = [at EXCEPT ![c] = "sent"]
  /\ path' = [path EXCEPT ![c] = p]
  /\ sent' = [sent EXCEPT ![c] = cookie]

\* A user opens a page, or the script of the page shown asks for one.
Open(c, p) ==
  /\ at[c] = "idle"
  /\ Send(c, p)
  /\ \E by \in BOOLEAN : script' = [script EXCEPT ![c] = by]
  /\ asked' = [asked EXCEPT ![c] = p]
  /\ UNCHANGED <<key, cookie, flow, denied, reply, expired, faults>>

\* A button of the page shown posts a force-run request.
ForceRun(c) ==
  /\ at[c] = "idle"
  /\ Send(c, "forceRun")
  /\ script' = [script EXCEPT ![c] = TRUE]
  /\ UNCHANGED <<key, cookie, asked, flow, denied, reply, expired, faults>>

\* The request of c has been served.
Respond(c, s, to) ==
  /\ at' = [at EXCEPT ![c] = "reply"]
  /\ reply' = [reply EXCEPT ![c] = [set |-> s, to |-> to]]
  /\ sent' = [sent EXCEPT ![c] = None]
  /\ flow' = [flow EXCEPT ![c] = None]
  /\ denied' = [denied EXCEPT ![c] = FALSE]
  /\ UNCHANGED <<key, cookie, script, asked, path>>

\* Introspection says whether the token is active; the call may fail.
Introspected(c, in) ==
  \/ in = LoggedIn(sent[c]) /\ UNCHANGED faults
  \/ ~in /\ LoggedIn(sent[c]) /\ faults < MaxFaults /\ faults' = faults + 1

\* ServeHTTP of the status and the module page, once Authenticate has found a
\* user: the page, or an error when the modules or their runs cannot be read.
ShowPage(c) ==
  /\ at[c] = "sent" /\ path[c] \in Pages
  /\ Introspected(c, TRUE)
  /\ \E to \in {"page", "failed"} : Respond(c, None, to)
  /\ UNCHANGED expired

\* Authenticate without a state and without a user: a new session and a redirect
\* to the issuer.
SendToIssuer(c) ==
  /\ at[c] = "sent" /\ path[c] \in Pages
  /\ Introspected(c, FALSE)
  /\ LET s == NewSession(c, path[c]) IN
       Respond(c, s, "issuer") /\ expired' = expired \ {s.flow}

\* RedirectPath is cleared before it is read.
ServeCallbackCleared(c) ==
  /\ at[c] = "sent" /\ path[c] = "callback"
  /\ ~denied[c] /\ Accepts(sent[c], flow[c])
  /\ Respond(c, Exchanged(sent[c]), Exchanged(sent[c]).back)
  /\ UNCHANGED <<expired, faults>>

\* Authenticate with a state: the answer of the issuer is exchanged for a token
\* and the browser is sent where it wanted to go.
ServeCallback(c) ==
  /\ at[c] = "sent" /\ path[c] = "callback"
  /\ ~denied[c] /\ Accepts(sent[c], flow[c])
  /\ Respond(c, Exchanged(sent[c]), sent[c].back)
  /\ UNCHANGED <<expired, faults>>

\* It is not the answer this session waits for, or cannot be exchanged.
RejectCallback(c) ==
  /\ at[c] = "sent" /\ path[c] = "callback"
  /\ \/ (denied[c] \/ ~Accepts(sent[c], flow[c])) /\ UNCHANGED faults
     \/ /\ ~denied[c] /\ Accepts(sent[c], flow[c])
        /\ faults < MaxFaults /\ faults' = faults + 1
  /\ Respond(c, None, "error")
  /\ UNCHANGED expired

\* The response arrives: the browser stores its cookie, and a tab goes where it
\* leads.  What a client has been through is forgotten where it ends.
Arrive(c) ==
  LET r == reply[c] IN
  /\ at[c] = "reply"
  /\ cookie' = IF r.set = None THEN cookie ELSE r.set
  /\ reply' = [reply EXCEPT ![c] = NoReply]
  /\ \/ /\ r.to \in Pages
        /\ at' = [at EXCEPT ![c] = "sent"]
        /\ path' = [path EXCEPT ![c] = r.to]
        /\ sent' = [sent EXCEPT ![c] = cookie']
        /\ UNCHANGED <<script, asked, flow>>
     \/ /\ r.to = "issuer" /\ ~script[c]
        /\ at' = [at EXCEPT ![c] = "login"]
        /\ flow' = [flow EXCEPT ![c] = r.set.flow]
        /\ path' = [path EXCEPT ![c] = None]
        /\ UNCHANGED <<script, asked, sent>>
     \/ /\ r.to \in Answers /\ (r.to = "issuer" => script[c])
        /\ at' = [at EXCEPT ![c] = "idle"]
        /\ script' = [script EXCEPT ![c] = FALSE]
        /\ asked' = [asked EXCEPT ![c] = None]
        /\ path' = [path EXCEPT ![c] = None]
        /\ UNCHANGED <<sent, flow>>
  /\ UNCHANGED <<key, denied, expired, faults>>

\* The user logs in, or the issuer refuses; either way the tab is sent back.
Login(c) ==
  /\ at[c] = "login"
  /\ Send(c, "callback")
  /\ \E no \in BOOLEAN : denied' = [denied EXCEPT ![c] = no]
  /\ UNCHANGED <<key, cookie, script, asked, flow, reply, expired, faults>>

\* The user leaves the issuer's page.
GiveUp(c) ==
  /\ at[c] = "login"
  /\ at' = [at EXCEPT ![c] = "idle"]
  /\ asked' = [asked EXCEPT ![c] = None]
  /\ flow' = [flow EXCEPT ![c] = None]
  /\ UNCHANGED <<key, cookie, script, path, sent, denied, reply, expired, faults>>

---------------------------------------------------------------------------
\* ForceRunHandler.ServeHTTP

CanForceRun(email, groups, rbac) ==
  \E b \in rbac : /\ b.role = "Admin"
                  /\ \/ b.kind = "User" /\ b.name = email /\ email # "blank"
                     \/ b.kind = "Group" /\ b.name \in groups \ {"blank"}

\* UserInfo, which never leads to the issuer.  The module is read, and decides
\* whether whoever the token is of may force a run; it may also be missing,
\* running, locked, or have a request already.
ServeForceRun(c) ==
  /\ at[c] = "sent" /\ path[c] = "forceRun"
  /\ \/ /\ Introspected(c, TRUE)
        /\ \E u \in Users, rbac \in Bindings : CanForceRun(u.email, u.groups, rbac)
        /\ Respond(c, None, "queued")
     \/ /\ \E in \in BOOLEAN : Introspected(c, in)
        /\ Respond(c, None, "refused")
  /\ UNCHANGED expired

---------------------------------------------------------------------------
\* The process is started again, with a new key; requests under way are cut off.
Restart ==
  /\ faults < MaxFaults /\ faults' = faults + 1
  /\ key' = key + 1
  /\ LET cut == {c \in Clients : at[c] = "sent"}
         Reset(v, none) == [c \in Clients |-> IF c \in cut THEN none ELSE v[c]] IN
       /\ at' = Reset(at, "idle") /\ script' = Reset(script, FALSE) /\ asked' = Reset(asked, None)
       /\ path' = Reset(path, None) /\ sent' = Reset(sent, None)
       /\ flow' = Reset(flow, None) /\ denied' = Reset(denied, FALSE)
  /\ UNCHANGED <<cookie, reply, expired>>

\* A token expires, or the issuer revokes it.
Expire ==
  /\ faults < MaxFaults /\ faults' = faults + 1
  /\ \E s \in {cookie} \cup {sent[c] : c \in Clients} \cup {reply[c].set : c \in Clients} :
       s # None /\ s.token # None /\ s.token \notin expired /\ expired' = expired \cup {s.token}
  /\ UNCHANGED <<key, cookie, client>>

Progress(c) ==
  \/ ShowPage(c) \/ SendToIssuer(c) \/ ServeCallback(c) \/ RejectCallback(c)
  \/ ServeForceRun(c) \/ Arrive(c) \/ Login(c) \/ GiveUp(c)

Next ==
  \/ \E c \in Clients : Progress(c) \/ ForceRun(c) \/ \E p \in Pages : Open(c, p)
  \/ Restart \/ Expire

Spec == Init /\ [][Next]_vars

\* Requests are served, responses arrive, and a user faced with the issuer's
\* page logs in or leaves.
FairSpec == Spec /\ \A c \in Clients : WF_vars(Progress(c))

---------------------------------------------------------------------------
\* Properties

\* oidc.go: "we can simply redirect back to the path that was requested": the
\* page a tab gets in the end is the one that was asked for in it, though all
\* tabs keep where they want to go in one cookie.
TabShowsWhatWasAsked ==
  \A c \in Clients : reply[c].to = "page" => path[c] = asked[c]

\* The answer of the issuer is refused only when another client's response, a
\* restart or a failing call came between, or the issuer said no: nothing a tab
\* does itself spoils its login.
LoginIsLostToOthers ==
  [][\A t \in Clients : (reply'[t].to = "error" /\ reply[t].to # "error") =>
       \/ denied[t] \/ faults' # faults
       \/ sent[t] # None /\ (By(sent[t].flow) # t \/ sent[t].key # key)]_vars

\* A tab is not sent to the issuer again and again: unless others go on for ever
\* to log in, which takes its cookie away, it ends at a page or at an error.
LoginEnds ==
  \A t \in Clients : []<>(\/ at[t] = "idle"
                         \/ \E c \in Clients \ {t} : at[c] # "idle")
=============================================================================
