--------------------------- MODULE WebServerProofs ---------------------------
(***************************************************************************)
(* What holds of WebServer for every number of tabs and scripts, every set *)
(* of pages and every number of faults: a tab ends at the page that was    *)
(* asked for in it, and loses its login to nothing it does itself.         *)
(***************************************************************************)
EXTENDS WebServer, NumberLemmas, TLAPS

-----------------------------------------------------------------------------
(* The inductive invariant.                                                *)

\* A client has a flow of its own while it is at the issuer and on its way back.
AtIssuer(c) == at[c] = "login" \/ (at[c] = "sent" /\ path[c] = "callback")

\* What is asked for is what the request, and what the response, is about.
ClientInv(c) ==
  /\ sent[c] # None => at[c] = "sent"
  /\ flow[c] # None <=> AtIssuer(c)
  /\ flow[c] # None => By(flow[c]) = c
  /\ at[c] \in {"sent", "reply"} /\ path[c] \in Pages => path[c] = asked[c]
  /\ reply[c].to = "page" => path[c] \in Pages
  /\ reply[c].to \in Pages => reply[c].to = asked[c]
  /\ reply[c].to = "issuer" => reply[c].set # None /\ reply[c].set.pending
  /\ reply[c].set # None => at[c] = "reply" /\ By(reply[c].set.flow) = c

\* The session that goes with client c waits for the answer c comes back with,
\* unless it is another client's.
WaitsFor(s, c) == s # None /\ (By(s.flow) = c => s.flow = flow[c] /\ s.pending)

AwaitedInv(c) ==
  /\ at[c] = "login" => WaitsFor(cookie, c)
  /\ at[c] = "sent" /\ path[c] = "callback" => WaitsFor(sent[c], c)

\* Client c is, or will be, at the issuer with the flow f.
Awaits(c, f) ==
  flow[c] = f \/ (reply[c].to = "issuer" /\ ~ script[c] /\ reply[c].set.flow = f)

\* The sessions there are, wherever they are kept.
Saved == {s \in Session : \/ s = cookie
                          \/ \E c \in Clients : s = sent[c] \/ s = reply[c].set}

\* A session that waits leads to a page, the one its client has asked for.
BackInv ==
  \A s \in Saved : s.pending =>
    s.back \in Pages /\ \A c \in Clients : Awaits(c, s.flow) => s.back = asked[c]

WebInv ==
  /\ TypeOK
  /\ key <= faults
  /\ \A c \in Clients : ClientInv(c) /\ AwaitedInv(c)
  /\ BackInv

-----------------------------------------------------------------------------
(* Sessions and flows.                                                     *)

\* What a fresh flow is not.
LEMMA NotInUse ==
  ASSUME NEW f, f \notin InUse
  PROVE  /\ cookie # None => cookie.flow # f
         /\ \A c \in Clients : /\ sent[c] # None => sent[c].flow # f
                               /\ reply[c].set # None => reply[c].set.flow # f
                               /\ flow[c] # None => flow[c] # f
BY DEF InUse, FlowOf

\* Of the N + 2 flows of a client whose request is being served, N + 1 at most
\* are in use: one in the cookie, and one in what each client has sent.
LEMMA FlowLeft ==
  ASSUME WebInv, NEW c \in Clients, at[c] = "sent", path[c] # "callback"
  PROVE  \E i \in 0 .. Cardinality(Clients) + 1 : <<c, i>> \notin InUse
<1> DEFINE N == Cardinality(Clients)
           S == Clients \cup {None}
           h == [d \in S |-> IF d = None THEN cookie.flow[2] ELSE sent[d].flow[2]]
           I == {i \in 0 .. N + 1 : <<c, i>> \in InUse}
           R == {h[d] : d \in S}
<1>1. /\ IsFiniteSet(S) /\ Cardinality(S) = N + 1 /\ N \in Nat
      /\ IsFiniteSet(0 .. N + 1) /\ Cardinality(0 .. N + 1) = N + 2
  <2>1. IsFiniteSet(Clients) /\ None \notin Clients /\ N \in Nat
    BY WebServerAssumption, FS_CardinalityType
  <2>2. IsFiniteSet(S) /\ Cardinality(S) = N + 1
    BY <2>1, FS_AddElement
  <2>3. IsFiniteSet(0 .. N + 1) /\ Cardinality(0 .. N + 1) = N + 2
    BY <2>1, FS_Interval
  <2> QED BY <2>1, <2>2, <2>3
<1>2. IsFiniteSet(R) /\ Cardinality(R) <= N + 1
  <2>1. h \in Surjection(S, R)
    BY DEF Surjection
  <2> HIDE DEF h, R, S
  <2> QED BY <1>1, <2>1, FS_Surjection
<1>3. ASSUME NEW i \in I PROVE i \in R
  <2>0. <<c, i>> \in Flows
    BY DEF Flows
  <2>1. \A d \in Clients : /\ flow[d] # <<c, i>>
                           /\ reply[d].set # None => reply[d].set.flow # <<c, i>>
    <3> TAKE d \in Clients
    <3>1. CASE d = c
      <4>1. flow[c] = None /\ reply[c].set = None
        BY DEF WebInv, ClientInv, AtIssuer
      <4> QED BY <2>0, <3>1, <4>1, WebServerAssumption
    <3>2. CASE d # c
      BY <2>0, <3>2, WebServerAssumption DEF WebInv, ClientInv, By
    <3> QED BY <3>1, <3>2
  <2>2. \/ cookie # None /\ cookie.flow = <<c, i>>
        \/ \E d \in Clients : sent[d] # None /\ sent[d].flow = <<c, i>>
    BY <2>1 DEF InUse, FlowOf
  <2>3. None \notin Clients
    BY WebServerAssumption
  <2>4. \E d \in S : h[d] = i
    BY <2>2, <2>3
  <2> QED BY <2>4
<1>4. I # 0 .. N + 1
  <2> SUFFICES ASSUME I = 0 .. N + 1 PROVE FALSE
    OBVIOUS
  <2>1. (0 .. N + 1) \in SUBSET R
    BY <1>3
  <2>2. Cardinality(0 .. N + 1) <= Cardinality(R)
    BY <1>2, <2>1, FS_Subset
  <2>3. Cardinality(R) \in Nat
    BY <1>2, FS_CardinalityType
  <2> QED BY <1>1, <1>2, <2>2, <2>3
<1> QED BY <1>4

\* The random values of a new session are nobody else's.
LEMMA FreshFlow ==
  ASSUME WebInv, NEW c \in Clients, at[c] = "sent", path[c] # "callback"
  PROVE  Fresh(c) \in Flows \ InUse /\ By(Fresh(c)) = c
<1> DEFINE J == {i \in 0 .. Cardinality(Clients) + 1 : <<c, i>> \notin InUse}
<1>1. J \in SUBSET Nat /\ J # {}
  BY FlowLeft
<1>2. PICK i \in J : \A j \in J : i <= j
  BY <1>1, LeastElement
<1>3. /\ <<c, i>> \in Flows \ InUse /\ By(<<c, i>>) = c
      /\ \A g \in Flows \ InUse : By(g) = c => <<c, i>>[2] <= g[2]
  BY <1>2 DEF Flows, By
<1> QED BY <1>3 DEF Fresh

-----------------------------------------------------------------------------
(* Requests are served.                                                    *)

\* Another client is left as it is.
Keeps(d) ==
  /\ at'[d] = at[d] /\ script'[d] = script[d] /\ asked'[d] = asked[d]
  /\ path'[d] = path[d] /\ sent'[d] = sent[d] /\ flow'[d] = flow[d]
  /\ denied'[d] = denied[d] /\ reply'[d] = reply[d]

FaultsCounted == faults' \in faults .. MaxFaults

\* A response the invariant allows to the request of client c.
Right(c, s, to) ==
  /\ s \in Session \cup {None} /\ to \in Pages \cup Answers
  /\ to = "page" => path[c] \in Pages
  /\ to \in Pages => to = asked[c]
  /\ to = "issuer" => s # None /\ s.pending
  /\ s # None => By(s.flow) = c
  /\ s # None /\ s.pending => s.flow \notin InUse /\ s.back \in Pages /\ s.back = asked[c]

LEMMA TypeParts ==
  ASSUME TypeOK, NEW c \in Clients
  PROVE  /\ key \in 0 .. MaxFaults /\ faults \in 0 .. MaxFaults /\ expired \in SUBSET Flows
         /\ cookie \in Session \cup {None} /\ sent[c] \in Session \cup {None}
         /\ reply[c].set \in Session \cup {None}
         /\ reply[c].to \in Pages \cup {None} \cup Answers
         /\ path[c] \in Pages \cup {None, "callback", "forceRun"}
         /\ asked[c] \in Pages \cup {None} /\ flow[c] \in Flows \cup {None}
         /\ at[c] = "reply" <=> reply[c].to # None
BY DEF TypeOK

\* What the answers and the pages are not.
LEMMA Names ==
  /\ None \notin Pages /\ None \notin Answers /\ None \notin Flows /\ None \notin Session
  /\ Pages \cap Answers = {} /\ "callback" \notin Pages /\ "forceRun" \notin Pages
BY WebServerAssumption

LEMMA RespondEffect ==
  ASSUME TypeOK, NEW c \in Clients, NEW s, NEW to, Respond(c, s, to)
  PROVE  /\ at'[c] = "reply" /\ reply'[c].set = s /\ reply'[c].to = to
         /\ sent'[c] = None /\ flow'[c] = None /\ path'[c] = path[c]
         /\ asked'[c] = asked[c] /\ script'[c] = script[c]
         /\ \A d \in Clients \ {c} : Keeps(d)
         /\ UNCHANGED <<key, cookie>>
BY DEF TypeOK, Respond, Keeps

LEMMA RespondType ==
  ASSUME TypeOK, NEW c \in Clients, NEW s, NEW to, Respond(c, s, to), Right(c, s, to),
         FaultsCounted, expired' \subseteq Flows
  PROVE  TypeOK'
<1>1. faults' \in 0 .. MaxFaults
  BY DEF TypeOK, FaultsCounted
<1>2. reply' \in [Clients -> [set : Session \cup {None}, to : Pages \cup {None} \cup Answers]]
  BY DEF TypeOK, Respond, Right
<1>3. \A d \in Clients : at'[d] = "reply" <=> reply'[d].to # None
  <2>1. to # None
    BY Names DEF Right
  <2> QED BY <2>1, RespondEffect, TypeParts DEF Keeps
<1>4. /\ at' \in [Clients -> {"idle", "sent", "reply", "login"}]
      /\ sent' \in [Clients -> Session \cup {None}]
      /\ flow' \in [Clients -> Flows \cup {None}]
      /\ denied' \in [Clients -> BOOLEAN]
  BY DEF TypeOK, Respond
<1> QED BY <1>1, <1>2, <1>3, <1>4 DEF TypeOK, Respond

\* Nothing is different for a client that is left as it is while the cookie
\* stays, or becomes another's.
LEMMA KeptClient ==
  ASSUME NEW d \in Clients, Keeps(d), ClientInv(d), AwaitedInv(d),
         \/ cookie' = cookie
         \/ cookie' # None /\ By(cookie'.flow) # d
  PROVE  ClientInv(d)' /\ AwaitedInv(d)'
<1>1. ClientInv(d)'
  BY DEF Keeps, ClientInv, AtIssuer
<1>2. AwaitedInv(d)'
  BY DEF Keeps, AwaitedInv, WaitsFor
<1> QED BY <1>1, <1>2

LEMMA RespondClient ==
  ASSUME WebInv, NEW c \in Clients, NEW s, NEW to, Respond(c, s, to), Right(c, s, to),
         at[c] = "sent"
  PROVE  \A d \in Clients : ClientInv(d)' /\ AwaitedInv(d)'
<1> TAKE d \in Clients
<1>0. TypeOK
  BY DEF WebInv
<1>1. CASE d # c
  BY <1>0, <1>1, RespondEffect, KeptClient DEF WebInv
<1>2. CASE d = c
  <2>1. ClientInv(c)
    BY DEF WebInv
  <2>2. path[c] \in Pages => path[c] = asked[c]
    BY <2>1 DEF ClientInv
  <2>3. ClientInv(c)'
    BY <1>0, <2>2, RespondEffect DEF ClientInv, AtIssuer, Right
  <2>4. AwaitedInv(c)'
    BY <1>0, RespondEffect DEF AwaitedInv
  <2> QED BY <1>2, <2>3, <2>4
<1> QED BY <1>1, <1>2

LEMMA RespondBack ==
  ASSUME WebInv, NEW c \in Clients, NEW s, NEW to, Respond(c, s, to), Right(c, s, to),
         at[c] = "sent"
  PROVE  BackInv'
<1>0. TypeOK
  BY DEF WebInv
<1>1. \A f \in Flows, d \in Clients :
        Awaits(d, f)' => \/ Awaits(d, f)
                         \/ d = c /\ to = "issuer" /\ s.flow = f
  <2> TAKE f \in Flows, d \in Clients
  <2>1. CASE d = c
    BY <1>0, <2>1, RespondEffect, Names DEF Awaits
  <2>2. CASE d # c
    BY <1>0, <2>2, RespondEffect DEF Awaits, Keeps
  <2> QED BY <2>1, <2>2
<1>2. Saved' \subseteq Saved \cup ({s} \ {None})
  BY <1>0, RespondEffect, Names DEF Saved, Keeps
<1> SUFFICES ASSUME NEW r \in Saved', r.pending
             PROVE  /\ r.back \in Pages
                    /\ \A d \in Clients : Awaits(d, r.flow)' => r.back = asked'[d]
  BY DEF BackInv
<1>3. r \in Session /\ r.flow \in Flows /\ r # None
  BY Names DEF Saved, Session
<1>4. \A d \in Clients : asked'[d] = asked[d]
  BY DEF Respond
<1>5. CASE r = s
  <2>1. s.flow \notin InUse /\ s.back \in Pages /\ s.back = asked[c]
    BY <1>3, <1>5 DEF Right
  <2>2. \A d \in Clients : ~ Awaits(d, s.flow)
    <3> TAKE d \in Clients
    <3>1. flow[d] # s.flow
      BY <1>3, <1>5, <2>1, NotInUse, Names
    <3>2. reply[d].to = "issuer" => reply[d].set # None
      BY DEF WebInv, ClientInv
    <3> QED BY <2>1, <3>1, <3>2, NotInUse DEF Awaits
  <2> QED BY <1>1, <1>3, <1>4, <1>5, <2>1, <2>2
<1>6. CASE r # s
  <2>1. r \in Saved
    BY <1>2, <1>6
  <2>2. ASSUME to = "issuer" PROVE s.flow # r.flow
    <3>1. s.flow \notin InUse
      BY <2>2 DEF Right
    <3> QED BY <1>3, <2>1, <3>1, NotInUse DEF Saved
  <2>3. r.back \in Pages /\ \A d \in Clients : Awaits(d, r.flow) => r.back = asked[d]
    BY <2>1 DEF WebInv, BackInv
  <2> QED BY <1>1, <1>3, <1>4, <2>2, <2>3
<1> QED BY <1>5, <1>6

LEMMA RespondStep ==
  ASSUME WebInv, NEW c \in Clients, NEW s, NEW to, Respond(c, s, to), Right(c, s, to),
         at[c] = "sent", FaultsCounted, expired' \subseteq Flows
  PROVE  WebInv'
<1>0. TypeOK /\ key \in Nat /\ faults \in Nat /\ key <= faults
  BY DEF WebInv, TypeOK
<1>1. TypeOK'
  BY <1>0, RespondType
<1>2. key' <= faults'
  BY <1>0 DEF Respond, FaultsCounted
<1> QED BY <1>1, <1>2, RespondClient, RespondBack DEF WebInv

LEMMA FaultCounted ==
  ASSUME TypeOK, faults' = faults \/ (faults < MaxFaults /\ faults' = faults + 1)
  PROVE  FaultsCounted
<1>1. faults \in 0 .. MaxFaults /\ MaxFaults \in Nat
  BY WebServerAssumption DEF TypeOK
<1> QED BY <1>1 DEF FaultsCounted

LEMMA Introspection ==
  ASSUME TypeOK, NEW c \in Clients, NEW in, Introspected(c, in)
  PROVE  FaultsCounted
<1>1. faults' = faults \/ (faults < MaxFaults /\ faults' = faults + 1)
  BY DEF Introspected
<1> QED BY <1>1, FaultCounted

LEMMA ShowPageStep ==
  ASSUME WebInv, NEW c \in Clients, ShowPage(c)
  PROVE  WebInv'
<1>1. PICK to \in {"page", "failed"} : Respond(c, None, to)
  BY DEF ShowPage
<1>2. Right(c, None, to)
  BY Names DEF ShowPage, Right, Answers
<1>3. at[c] = "sent" /\ FaultsCounted /\ expired' \subseteq Flows
  BY Introspection DEF ShowPage, WebInv, TypeOK
<1> QED BY <1>1, <1>2, <1>3, RespondStep

LEMMA SendToIssuerStep ==
  ASSUME WebInv, NEW c \in Clients, SendToIssuer(c)
  PROVE  WebInv'
<1> DEFINE s == NewSession(c, path[c])
<1>0. at[c] = "sent" /\ path[c] \in Pages /\ path[c] # "callback"
  BY Names DEF SendToIssuer
<1>1. Fresh(c) \in Flows \ InUse /\ By(Fresh(c)) = c
  BY <1>0, FreshFlow
<1>2. /\ s \in Session /\ s.flow = Fresh(c) /\ s.back = path[c] /\ s.pending
  BY <1>0, <1>1, TypeParts DEF NewSession, Session, WebInv
<1>3. Respond(c, s, "issuer") /\ expired' = expired \ {s.flow} /\ Introspected(c, FALSE)
  BY DEF SendToIssuer
<1> HIDE DEF s
<1>4. path[c] = asked[c]
  BY <1>0 DEF WebInv, ClientInv
<1>5. Right(c, s, "issuer")
  BY <1>0, <1>1, <1>2, <1>4, Names DEF Right, Answers
<1>6. FaultsCounted /\ expired' \subseteq Flows
  BY <1>3, Introspection DEF WebInv, TypeOK
<1> QED BY <1>0, <1>3, <1>5, <1>6, RespondStep

LEMMA ServeCallbackStep ==
  ASSUME WebInv, NEW c \in Clients, ServeCallback(c)
  PROVE  WebInv'
<1> DEFINE s == Exchanged(sent[c])
<1>0. /\ at[c] = "sent" /\ path[c] = "callback" /\ sent[c] \in Session
      /\ sent[c].flow = flow[c] /\ sent[c].pending /\ sent[c].flow \in Flows
  BY TypeParts DEF ServeCallback, Accepts, Decodes, WebInv, Session
<1>1. s \in Session /\ s.flow = sent[c].flow /\ ~ s.pending
  BY <1>0 DEF Exchanged, Session
<1>2. Respond(c, s, sent[c].back)
  BY DEF ServeCallback
<1> HIDE DEF s
<1>3. sent[c] \in Saved
  BY <1>0 DEF Saved
<1>4. Awaits(c, sent[c].flow)
  BY <1>0 DEF Awaits
<1>5. sent[c].back \in Pages /\ sent[c].back = asked[c]
  BY <1>0, <1>3, <1>4 DEF WebInv, BackInv
<1>6. By(s.flow) = c
  BY <1>0, <1>1, Names DEF WebInv, ClientInv
<1>7. Right(c, s, sent[c].back)
  <2>1. sent[c].back \notin Answers /\ sent[c].back # "page" /\ sent[c].back # "issuer"
    BY <1>5, Names DEF Answers
  <2> QED BY <1>1, <1>5, <1>6, <2>1 DEF Right
<1>8. FaultsCounted /\ expired' \subseteq Flows
  BY DEF ServeCallback, FaultsCounted, WebInv, TypeOK
<1> QED BY <1>0, <1>2, <1>7, <1>8, RespondStep

LEMMA RejectCallbackStep ==
  ASSUME WebInv, NEW c \in Clients, RejectCallback(c)
  PROVE  WebInv'
<1>1. Respond(c, None, "error") /\ at[c] = "sent"
  BY DEF RejectCallback
<1>2. Right(c, None, "error")
  BY Names DEF Right, Answers
<1>3. expired' \subseteq Flows
  BY DEF RejectCallback, WebInv, TypeOK
<1>4. FaultsCounted
  <2>1. faults' = faults \/ (faults < MaxFaults /\ faults' = faults + 1)
    BY DEF RejectCallback
  <2> QED BY <2>1, FaultCounted DEF WebInv
<1> QED BY <1>1, <1>2, <1>3, <1>4, RespondStep

LEMMA ServeForceRunStep ==
  ASSUME WebInv, NEW c \in Clients, ServeForceRun(c)
  PROVE  WebInv'
<1>1. PICK to \in {"queued", "refused"} : Respond(c, None, to)
  BY DEF ServeForceRun
<1>2. Right(c, None, to)
  BY Names DEF Right, Answers
<1>3. FaultsCounted
  BY Introspection DEF ServeForceRun, WebInv
<1>4. at[c] = "sent" /\ expired' \subseteq Flows
  BY DEF ServeForceRun, WebInv, TypeOK
<1> QED BY <1>1, <1>2, <1>3, <1>4, RespondStep

-----------------------------------------------------------------------------
(* Requests are sent.                                                      *)

\* Client c sends a request with the cookie the browser has.
Sends(c, p) ==
  /\ at'[c] = "sent" /\ path'[c] = p /\ sent'[c] = cookie
  /\ flow'[c] = flow[c] /\ reply'[c] = reply[c]
  /\ \A d \in Clients \ {c} : Keeps(d)
  /\ UNCHANGED <<key, cookie, flow, reply, faults>>

LEMMA SendBack ==
  ASSUME WebInv, NEW c \in Clients, NEW p, Sends(c, p), reply[c].to # "issuer",
         asked'[c] = asked[c] \/ flow[c] = None
  PROVE  BackInv'
<1>1. \A f \in Flows, d \in Clients : Awaits(d, f)' => Awaits(d, f) /\ asked'[d] = asked[d]
  BY Names DEF Sends, Awaits, Keeps
<1>2. \A r \in Saved' : r \in Saved /\ r.flow \in Flows
  BY DEF Saved, Sends, Keeps, Session
<1> QED BY <1>1, <1>2 DEF BackInv, WebInv

LEMMA OpenStep ==
  ASSUME WebInv, NEW c \in Clients, NEW p \in Pages, Open(c, p)
  PROVE  WebInv'
<1>0. TypeOK /\ at[c] = "idle" /\ p # "callback"
  BY Names DEF WebInv, Open
<1>1. TypeOK'
  BY <1>0, TypeParts DEF TypeOK, Open, Send
<1>2. Sends(c, p) /\ asked'[c] = p
  BY <1>0 DEF TypeOK, Open, Send, Sends, Keeps
<1>3. ClientInv(c) /\ flow[c] = None /\ reply[c].to = None /\ reply[c].set = None
  BY <1>0, TypeParts DEF WebInv, ClientInv, AtIssuer
<1>4. \A d \in Clients : ClientInv(d)' /\ AwaitedInv(d)'
  <2> TAKE d \in Clients
  <2>1. CASE d = c
    <3>1. ClientInv(c)'
      BY <1>0, <1>2, <1>3, Names DEF Sends, ClientInv, AtIssuer, Answers
    <3>2. AwaitedInv(c)'
      BY <1>0, <1>2 DEF Sends, AwaitedInv
    <3> QED BY <2>1, <3>1, <3>2
  <2>2. CASE d # c
    BY <1>2, <2>2, KeptClient DEF Sends, WebInv
  <2> QED BY <2>1, <2>2
<1>5. BackInv'
  BY <1>2, <1>3, Names, SendBack DEF Answers
<1> QED BY <1>1, <1>2, <1>4, <1>5 DEF WebInv, Sends

LEMMA ForceRunStep ==
  ASSUME WebInv, NEW c \in Clients, ForceRun(c)
  PROVE  WebInv'
<1>0. TypeOK /\ at[c] = "idle"
  BY DEF WebInv, ForceRun
<1>1. TypeOK'
  BY <1>0, TypeParts DEF TypeOK, ForceRun, Send
<1>2. Sends(c, "forceRun")
  BY <1>0 DEF TypeOK, ForceRun, Send, Sends, Keeps
<1>3. ClientInv(c) /\ flow[c] = None /\ reply[c].to = None /\ reply[c].set = None
  BY <1>0, TypeParts DEF WebInv, ClientInv, AtIssuer
<1>4. \A d \in Clients : ClientInv(d)' /\ AwaitedInv(d)'
  <2> TAKE d \in Clients
  <2>1. CASE d = c
    <3>1. ClientInv(c)'
      BY <1>0, <1>2, <1>3, Names DEF Sends, ClientInv, AtIssuer, Answers
    <3>2. AwaitedInv(c)'
      BY <1>0, <1>2 DEF Sends, AwaitedInv
    <3> QED BY <2>1, <3>1, <3>2
  <2>2. CASE d # c
    BY <1>2, <2>2, KeptClient DEF Sends, WebInv
  <2> QED BY <2>1, <2>2
<1>5. BackInv'
  BY <1>2, <1>3, Names, SendBack DEF Answers
<1> QED BY <1>1, <1>2, <1>4, <1>5 DEF WebInv, Sends

LEMMA LoginStep ==
  ASSUME WebInv, NEW c \in Clients, Login(c)
  PROVE  WebInv'
<1>0. TypeOK /\ at[c] = "login"
  BY DEF WebInv, Login
<1>1. TypeOK'
  BY <1>0, TypeParts DEF TypeOK, Login, Send
<1>2. Sends(c, "callback") /\ asked'[c] = asked[c]
  BY <1>0 DEF TypeOK, Login, Send, Sends, Keeps
<1>3. ClientInv(c) /\ AwaitedInv(c) /\ reply[c].to = None /\ reply[c].set = None
  BY <1>0, TypeParts DEF WebInv, ClientInv
<1>4. \A d \in Clients : ClientInv(d)' /\ AwaitedInv(d)'
  <2> TAKE d \in Clients
  <2>1. CASE d = c
    <3>1. ClientInv(c)'
      BY <1>0, <1>2, <1>3, Names DEF Sends, ClientInv, AtIssuer, Answers
    <3>2. AwaitedInv(c)'
      BY <1>0, <1>2, <1>3 DEF Sends, AwaitedInv, WaitsFor
    <3> QED BY <2>1, <3>1, <3>2
  <2>2. CASE d # c
    BY <1>2, <2>2, KeptClient DEF Sends, WebInv
  <2> QED BY <2>1, <2>2
<1>5. BackInv'
  BY <1>2, <1>3, Names, SendBack DEF Answers
<1> QED BY <1>1, <1>2, <1>4, <1>5 DEF WebInv, Sends

-----------------------------------------------------------------------------
(* Responses arrive, logins are given up, faults.                          *)

\* No session is new, and nobody awaits another one than before.
LEMMA BackKept ==
  ASSUME BackInv, Saved' \subseteq Saved,
         \A d \in Clients, f \in Flows : Awaits(d, f)' => Awaits(d, f) /\ asked'[d] = asked[d]
  PROVE  BackInv'
<1>1. \A r \in Saved' : r \in Saved /\ r.flow \in Flows
  BY DEF Saved, Session
<1> QED BY <1>1 DEF BackInv

LEMMA ArriveType ==
  ASSUME WebInv, NEW c \in Clients, Arrive(c)
  PROVE  TypeOK'
<1>0. TypeOK
  BY DEF WebInv
<1>1. cookie' \in Session \cup {None}
  BY <1>0, TypeParts DEF Arrive
<1>2. reply' = [reply EXCEPT ![c] = NoReply]
  BY DEF Arrive
<1>3. /\ reply' \in [Clients -> [set : Session \cup {None}, to : Pages \cup {None} \cup Answers]]
      /\ reply'[c].to = None /\ \A d \in Clients \ {c} : reply'[d] = reply[d]
  BY <1>0, <1>2 DEF TypeOK, NoReply
<1>4. PICK a \in {"sent", "login", "idle"} : at' = [at EXCEPT ![c] = a]
  BY DEF Arrive
<1>5. /\ at' \in [Clients -> {"idle", "sent", "reply", "login"}]
      /\ at'[c] # "reply" /\ \A d \in Clients \ {c} : at'[d] = at[d]
  BY <1>0, <1>4 DEF TypeOK
<1>6. \A d \in Clients : at'[d] = "reply" <=> reply'[d].to # None
  BY <1>0, <1>3, <1>5, TypeParts
<1>7. reply[c].to = "issuer" => reply[c].set.flow \in Flows
  BY <1>0, TypeParts DEF WebInv, ClientInv, Session
<1>8. /\ script' \in [Clients -> BOOLEAN]
      /\ asked' \in [Clients -> Pages \cup {None}]
      /\ path' \in [Clients -> Pages \cup {None, "callback", "forceRun"}]
      /\ sent' \in [Clients -> Session \cup {None}]
      /\ flow' \in [Clients -> Flows \cup {None}]
  <2>1. script' = script \/ script' = [script EXCEPT ![c] = FALSE]
    BY DEF Arrive
  <2>2. asked' = asked \/ asked' = [asked EXCEPT ![c] = None]
    BY DEF Arrive
  <2>3. \E p \in Pages \cup {None} : path' = [path EXCEPT ![c] = p]
    BY DEF Arrive
  <2>4. sent' = sent \/ sent' = [sent EXCEPT ![c] = cookie']
    BY DEF Arrive
  <2>5. flow' = flow \/ \E f \in Flows : flow' = [flow EXCEPT ![c] = f]
    BY <1>7 DEF Arrive
  <2>6. script' \in [Clients -> BOOLEAN] /\ asked' \in [Clients -> Pages \cup {None}]
    BY <1>0, <2>1, <2>2 DEF TypeOK
  <2>7. path' \in [Clients -> Pages \cup {None, "callback", "forceRun"}]
    BY <1>0, <2>3 DEF TypeOK
  <2>8. sent' \in [Clients -> Session \cup {None}]
    BY <1>0, <1>1, <2>4 DEF TypeOK
  <2>9. flow' \in [Clients -> Flows \cup {None}]
    BY <1>0, <2>5 DEF TypeOK
  <2> QED BY <2>6, <2>7, <2>8, <2>9
<1> QED BY <1>0, <1>1, <1>3, <1>5, <1>6, <1>8 DEF TypeOK, Arrive

LEMMA ArriveStep ==
  ASSUME WebInv, NEW c \in Clients, Arrive(c)
  PROVE  WebInv'
<1> DEFINE r == reply[c]
<1>0. TypeOK /\ at[c] = "reply" /\ r.set \in Session \cup {None}
  BY TypeParts DEF WebInv, Arrive
<1>1. ClientInv(c) /\ flow[c] = None /\ sent[c] = None
  BY <1>0 DEF WebInv, ClientInv, AtIssuer
<1>2. /\ reply'[c].set = None /\ reply'[c].to = None
      /\ cookie' = IF r.set = None THEN cookie ELSE r.set
      /\ \A d \in Clients \ {c} : Keeps(d)
  BY <1>0 DEF Arrive, TypeOK, NoReply, Keeps
<1>3. \/ /\ r.to \in Pages /\ at'[c] = "sent" /\ path'[c] = r.to /\ sent'[c] = cookie'
         /\ asked'[c] = asked[c] /\ flow'[c] = None
      \/ /\ r.to = "issuer" /\ ~ script[c] /\ at'[c] = "login" /\ flow'[c] = r.set.flow
         /\ path'[c] = None /\ asked'[c] = asked[c] /\ sent'[c] = None
      \/ at'[c] = "idle" /\ path'[c] = None /\ sent'[c] = None /\ flow'[c] = None
  BY <1>0, <1>1 DEF Arrive, TypeOK
<1>4. /\ r.set # None => By(r.set.flow) = c
      /\ r.to \in Pages => r.to = asked[c]
      /\ r.to = "issuer" => r.set # None /\ r.set.pending /\ r.set.flow \in Flows
  BY <1>0, <1>1 DEF ClientInv, Session
<1> HIDE DEF r
<1>5. ASSUME NEW d \in Clients PROVE ClientInv(d)' /\ AwaitedInv(d)'
  <2>1. CASE d = c
    <3>1. ClientInv(c)'
      BY <1>2, <1>3, <1>4, Names DEF ClientInv, AtIssuer, Answers
    <3>2. AwaitedInv(c)'
      BY <1>2, <1>3, <1>4, Names DEF AwaitedInv, WaitsFor
    <3> QED BY <2>1, <3>1, <3>2
  <2>2. CASE d # c
    BY <1>2, <1>4, <2>2, KeptClient DEF WebInv
  <2> QED BY <2>1, <2>2
<1>6. BackInv'
  <2>1. Saved' \subseteq Saved
    <3>1. \A s \in Session : s = cookie' => s \in Saved
      BY <1>2 DEF Saved, r
    <3>2. \A s \in Session, d \in Clients : s = sent'[d] \/ s = reply'[d].set => s \in Saved
      BY <1>2, <1>3, <3>1, Names DEF Saved, Keeps
    <3> QED BY <3>1, <3>2 DEF Saved
  <2>2. \A d \in Clients, f \in Flows : Awaits(d, f)' => Awaits(d, f) /\ asked'[d] = asked[d]
    BY <1>2, <1>3, Names DEF Awaits, Keeps, r, Answers
  <2> QED BY <2>1, <2>2, BackKept DEF WebInv
<1>7. key' <= faults'
  BY DEF Arrive, WebInv
<1> QED BY <1>5, <1>6, <1>7, ArriveType DEF WebInv

LEMMA GiveUpStep ==
  ASSUME WebInv, NEW c \in Clients, GiveUp(c)
  PROVE  WebInv'
<1>0. TypeOK /\ at[c] = "login"
  BY DEF WebInv, GiveUp
<1>1. TypeOK'
  BY <1>0, TypeParts DEF TypeOK, GiveUp
<1>2. /\ at'[c] = "idle" /\ flow'[c] = None /\ path' = path /\ sent' = sent /\ reply' = reply
      /\ cookie' = cookie /\ \A d \in Clients \ {c} : Keeps(d)
  BY <1>0 DEF TypeOK, GiveUp, Keeps
<1>3. ClientInv(c) /\ sent[c] = None /\ reply[c].to = None /\ reply[c].set = None
  BY <1>0, TypeParts DEF WebInv, ClientInv
<1>4. \A d \in Clients : ClientInv(d)' /\ AwaitedInv(d)'
  <2> TAKE d \in Clients
  <2>1. CASE d = c
    <3>1. ClientInv(c)'
      BY <1>2, <1>3, Names DEF ClientInv, AtIssuer, Answers
    <3>2. AwaitedInv(c)'
      BY <1>2 DEF AwaitedInv
    <3> QED BY <2>1, <3>1, <3>2
  <2>2. CASE d # c
    BY <1>2, <2>2, KeptClient DEF WebInv
  <2> QED BY <2>1, <2>2
<1>5. BackInv'
  <2>1. Saved' \subseteq Saved
    BY <1>2 DEF Saved
  <2>2. \A d \in Clients, f \in Flows : Awaits(d, f)' => Awaits(d, f) /\ asked'[d] = asked[d]
    BY <1>2, <1>3, Names DEF Awaits, Keeps, Answers
  <2> QED BY <2>1, <2>2, BackKept DEF WebInv
<1>6. key' <= faults'
  BY DEF GiveUp, WebInv
<1> QED BY <1>1, <1>4, <1>5, <1>6 DEF WebInv

\* A client whose request is cut off starts anew; the others go on.
LEMMA RestartStep ==
  ASSUME WebInv, Restart
  PROVE  WebInv'
<1>0. TypeOK /\ UNCHANGED <<cookie, reply, expired>>
  BY DEF WebInv, Restart
<1>1. ASSUME NEW d \in Clients
      PROVE  \/ Keeps(d)
             \/ /\ at[d] = "sent" /\ at'[d] = "idle" /\ path'[d] = None /\ sent'[d] = None
                /\ flow'[d] = None /\ reply'[d] = reply[d]
  BY DEF Restart, Keeps
<1>2. faults \in 0 .. MaxFaults /\ key \in Nat /\ key <= faults /\ MaxFaults \in Nat
  BY WebServerAssumption DEF WebInv, TypeOK
<1>3. key' \in 0 .. MaxFaults /\ faults' \in 0 .. MaxFaults /\ key' <= faults'
  BY <1>2 DEF Restart
<1>4. TypeOK'
  <2>1. /\ at' \in [Clients -> {"idle", "sent", "reply", "login"}]
        /\ script' \in [Clients -> BOOLEAN] /\ denied' \in [Clients -> BOOLEAN]
        /\ asked' \in [Clients -> Pages \cup {None}]
    BY <1>0 DEF TypeOK, Restart
  <2>2. /\ path' \in [Clients -> Pages \cup {None, "callback", "forceRun"}]
        /\ sent' \in [Clients -> Session \cup {None}]
        /\ flow' \in [Clients -> Flows \cup {None}]
    BY <1>0 DEF TypeOK, Restart
  <2>3. \A d \in Clients : at'[d] = "reply" <=> reply'[d].to # None
    BY <1>0, <1>1, TypeParts DEF Keeps
  <2> QED BY <1>0, <1>3, <2>1, <2>2, <2>3 DEF TypeOK
<1>5. \A d \in Clients : ClientInv(d)' /\ AwaitedInv(d)'
  <2> TAKE d \in Clients
  <2>1. CASE Keeps(d)
    BY <1>0, <2>1, KeptClient DEF WebInv
  <2>2. CASE ~ Keeps(d)
    <3>1. reply[d].to = None /\ reply[d].set = None
      BY <1>0, <1>1, <2>2, TypeParts DEF WebInv, ClientInv
    <3>2. ClientInv(d)'
      BY <1>1, <2>2, <3>1, Names DEF ClientInv, AtIssuer, Answers
    <3>3. AwaitedInv(d)'
      BY <1>1, <2>2 DEF AwaitedInv
    <3> QED BY <3>2, <3>3
  <2> QED BY <2>1, <2>2
<1>6. BackInv'
  <2>1. Saved' \subseteq Saved
    BY <1>0, <1>1, Names DEF Saved, Keeps
  <2>2. \A d \in Clients, f \in Flows : Awaits(d, f)' => Awaits(d, f) /\ asked'[d] = asked[d]
    <3> TAKE d \in Clients, f \in Flows
    <3>1. CASE Keeps(d)
      BY <3>1 DEF Awaits, Keeps
    <3>2. CASE ~ Keeps(d)
      <4>1. reply[d].to = None
        BY <1>0, <1>1, <3>2, TypeParts
      <4> QED BY <1>1, <3>2, <4>1, Names DEF Awaits, Answers
    <3> QED BY <3>1, <3>2
  <2> QED BY <2>1, <2>2, BackKept DEF WebInv
<1> QED BY <1>3, <1>4, <1>5, <1>6 DEF WebInv

LEMMA ExpireStep ==
  ASSUME WebInv, Expire
  PROVE  WebInv'
<1>0. TypeOK /\ UNCHANGED <<key, cookie, client>>
  BY DEF WebInv, Expire
<1>1. expired' \subseteq Flows
  <2>1. PICK s \in {cookie} \cup {sent[c] : c \in Clients} \cup {reply[c].set : c \in Clients} :
          s # None /\ s.token # None /\ expired' = expired \cup {s.token}
    BY DEF Expire
  <2>2. s \in Session
    BY <1>0, <2>1 DEF TypeOK
  <2>3. s.token \in Flows
    BY <2>1, <2>2 DEF Session
  <2> QED BY <1>0, <2>1, <2>3 DEF TypeOK
<1>2. faults' \in 0 .. MaxFaults /\ key' <= faults'
  <2>1. faults \in 0 .. MaxFaults /\ MaxFaults \in Nat /\ key \in Nat /\ key <= faults
    BY WebServerAssumption DEF WebInv, TypeOK
  <2> QED BY <1>0, <2>1 DEF Expire
<1>3. TypeOK'
  BY <1>0, <1>1, <1>2 DEF TypeOK, client
<1>4. \A d \in Clients : ClientInv(d)' /\ AwaitedInv(d)'
  BY <1>0, KeptClient DEF WebInv, Keeps, client
<1>5. BackInv'
  BY <1>0, BackKept DEF WebInv, client, Saved, Awaits
<1> QED BY <1>2, <1>3, <1>4, <1>5 DEF WebInv

-----------------------------------------------------------------------------
(* The theorems.                                                           *)

LEMMA WebInit ==
  ASSUME Init
  PROVE  WebInv
<1>1. TypeOK
  BY WebServerAssumption DEF Init, TypeOK, NoReply
<1>2. \A c \in Clients : ClientInv(c) /\ AwaitedInv(c)
  BY Names DEF Init, ClientInv, AwaitedInv, AtIssuer, NoReply, Answers
<1>3. BackInv
  BY Names DEF Init, BackInv, Saved, NoReply
<1>4. key <= faults
  BY DEF Init
<1> QED BY <1>1, <1>2, <1>3, <1>4 DEF WebInv

LEMMA WebStep ==
  ASSUME WebInv, [Next]_vars
  PROVE  WebInv'
<1>1. ASSUME NEW c \in Clients, Progress(c)
      PROVE  WebInv'
  BY <1>1, ShowPageStep, SendToIssuerStep, ServeCallbackStep, RejectCallbackStep,
     ServeForceRunStep, ArriveStep, LoginStep, GiveUpStep DEF Progress
<1>2. ASSUME NEW c \in Clients, ForceRun(c) \/ \E p \in Pages : Open(c, p)
      PROVE  WebInv'
  BY <1>2, ForceRunStep, OpenStep
<1>3. CASE UNCHANGED vars
  BY <1>3 DEF vars, client, WebInv, TypeOK, ClientInv, AtIssuer, AwaitedInv, WaitsFor,
              BackInv, Saved, Awaits
<1> QED BY <1>1, <1>2, <1>3, RestartStep, ExpireStep DEF Next

\* Sessions, requests and responses are what they should be, and the inductive
\* invariant holds, in every state the server and its clients come to.
THEOREM WebServerInvariant == Spec => []WebInv
<1> QED BY WebInit, WebStep, PTL DEF Spec

\* Every variable of the web server and of its clients keeps its type (userSession
\* of oidc.go, and what a browser has).
THEOREM TypeCorrect == Spec => []TypeOK
<1>1. WebInv => TypeOK
  BY DEF WebInv
<1> QED BY <1>1, WebServerInvariant, PTL

\* The page a tab is shown in the end is the one that was asked for in it, though
\* Authenticate keeps where all tabs want to go in one cookie (oidc.go).
THEOREM LoginsEndWhereTheyBegan == Spec => []TabShowsWhatWasAsked
<1>1. WebInv => TabShowsWhatWasAsked
  <2> SUFFICES ASSUME WebInv, NEW c \in Clients, reply[c].to = "page"
               PROVE  path[c] = asked[c]
    BY DEF TabShowsWhatWasAsked
  <2>1. at[c] = "reply"
    BY TypeParts, Names DEF WebInv, Answers
  <2> QED BY <2>1 DEF WebInv, ClientInv
<1> QED BY <1>1, WebServerInvariant, PTL

\* An error is new only where a callback has been refused.
LEMMA NewErrorIsRejection ==
  ASSUME WebInv, Next, NEW t \in Clients, reply'[t].to = "error", reply[t].to # "error"
  PROVE  RejectCallback(t)
<1>0. TypeOK
  BY DEF WebInv
<1>1. ASSUME NEW c \in Clients, NEW s, NEW to, Respond(c, s, to), to # "error"
      PROVE  FALSE
  <2>1. t = c
    BY <1>0, <1>1, RespondEffect DEF Keeps
  <2> QED BY <1>0, <1>1, <2>1, RespondEffect
<1>2. ASSUME NEW c \in Clients, ServeCallback(c)
      PROVE  FALSE
  <2>1. sent[c] \in Saved /\ sent[c].pending
    BY <1>0, <1>2, TypeParts DEF ServeCallback, Accepts, Decodes, Saved
  <2>2. sent[c].back # "error"
    BY <2>1, Names DEF WebInv, BackInv, Answers
  <2> QED BY <1>1, <1>2, <2>2 DEF ServeCallback
<1>3. ASSUME NEW c \in Clients, Arrive(c)
      PROVE  FALSE
  <2>1. reply' = [reply EXCEPT ![c] = NoReply] /\ NoReply.to = None
    BY <1>3 DEF Arrive, NoReply
  <2>2. reply'[t].to = None \/ reply'[t] = reply[t]
    BY <1>0, <2>1 DEF TypeOK
  <2> QED BY <2>2, Names DEF Answers
<1>4. ASSUME NEW c \in Clients, RejectCallback(c)
      PROVE  t = c
  BY <1>0, <1>4, RespondEffect DEF RejectCallback, Keeps
<1>5. ASSUME NEW c \in Clients,
             ShowPage(c) \/ SendToIssuer(c) \/ ServeForceRun(c)
      PROVE  FALSE
  BY <1>1, <1>5 DEF ShowPage, SendToIssuer, ServeForceRun
<1>6. ASSUME UNCHANGED reply
      PROVE  FALSE
  BY <1>6
<1>7. ASSUME NEW c \in Clients, \/ Login(c) \/ GiveUp(c) \/ ForceRun(c)
                                \/ \E p \in Pages : Open(c, p)
      PROVE  FALSE
  BY <1>6, <1>7 DEF Login, GiveUp, ForceRun, Open
<1>8. ASSUME Restart \/ Expire
      PROVE  FALSE
  BY <1>6, <1>8 DEF Restart, Expire, client
<1>9. PICK c \in Clients : Progress(c) \/ ForceRun(c) \/ \E p \in Pages : Open(c, p)
  BY <1>8 DEF Next
<1>10. RejectCallback(c)
  BY <1>2, <1>3, <1>5, <1>7, <1>9 DEF Progress
<1> QED BY <1>4, <1>10

\* The answer of the issuer is refused (processCallback of oidc.go) only when
\* another client took the cookie, the process was started again, a call failed
\* or the issuer said no.
THEOREM OwnLoginsAreAccepted == Spec => LoginIsLostToOthers
<1> DEFINE Lost(t) == (reply'[t].to = "error" /\ reply[t].to # "error") =>
                        \/ denied[t] \/ faults' # faults
                        \/ sent[t] # None /\ (By(sent[t].flow) # t \/ sent[t].key # key)
           Step == \A t \in Clients : Lost(t)
<1>1. WebInv /\ [Next]_vars => [Step]_vars
  <2> SUFFICES ASSUME WebInv, Next, NEW t \in Clients,
                      reply'[t].to = "error", reply[t].to # "error",
                      ~ denied[t], faults' = faults
               PROVE  sent[t] # None /\ (By(sent[t].flow) # t \/ sent[t].key # key)
    OBVIOUS
  <2>1. RejectCallback(t)
    BY NewErrorIsRejection
  <2>2. at[t] = "sent" /\ path[t] = "callback"
    BY <2>1 DEF RejectCallback
  <2>3. WaitsFor(sent[t], t)
    BY <2>2 DEF WebInv, AwaitedInv
  <2>4. faults \in Nat
    BY DEF WebInv, TypeOK
  <2>5. ~ Accepts(sent[t], flow[t])
    BY <2>1, <2>4 DEF RejectCallback
  <2> QED BY <2>3, <2>5 DEF WaitsFor, Accepts, Decodes
<1>2. Spec => [][Step]_vars
  BY <1>1, WebServerInvariant, PTL DEF Spec
<1> QED BY <1>2 DEF LoginIsLostToOthers

=============================================================================
