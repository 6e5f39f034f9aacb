------------------------------- MODULE Login -------------------------------
(***************************************************************************)
(* From an accepted socket to the first ReadyForQuery: the handshake and   *)
(* its upgrade to TLS, the credential, and the probe connection that finds *)
(* out what the client is to be told of its server.  Guests share the      *)
(* directory of backends and the parameter cache.                          *)
(***************************************************************************)
EXTENDS Integers, Sequences, FiniteSets

CONSTANTS
  Guests,      \* clients that log in
  Listeners,   \* how the node may be set up: posture, certificate, statics
  MaxHellos    \* bound: untagged messages one client sends

VARIABLES
  listener,    \* the node's set-up, once it listens
  login,       \* per guest, its session task and what the guest has been told
  probe,       \* per guest, the upstream handshake of its probe connection
  directory,   \* PgConnector::backends: the pool keys it has credentials for
  known        \* ParameterCache: the entry of the tenants' server, if there is one

loginVars == <<listener, login, probe, directory, known>>

NotYet == "not yet"
NotListening == [posture |-> NotYet, certificate |-> FALSE, statics |-> FALSE]
TenantKey == "tenant"

LoginPlaces == {"hello", "upgrading", "password", "resolving", "initial", "proof",
                "dial", "upstream", "welcome", "in", "closed"}
HandshakeStages == {"Opening", "Settled", "Asked", "Closed"}

\* Users of a startup packet: a tenant's; a static user with a credential on
\* this node; a static user without one.
Users == {"tenant", "operator", "stranger"}
StaticUsers == {"operator", "stranger"}

NewLogin ==
  [at |-> "hello", stage |-> "Opening", encrypted |-> FALSE, user |-> NotYet, offered |-> NotYet,
   told |-> << >>, params |-> {}, hellos |-> 0, left |-> FALSE, ended |-> NotYet, from |-> NotYet]

\* The server's half of a probe, and UpstreamHandshake's: stage, the SCRAM
\* exchange if one was begun, the parameters collected.
NoProbe == [server |-> "start", stage |-> "Opening", exchange |-> FALSE, params |-> {}]

LoginInit ==
  /\ listener = NotListening
  /\ login = [g \in Guests |-> NewLogin]
  /\ probe = [g \in Guests |-> NoProbe]
  /\ directory = {}
  /\ known = {}

Listens ==
  /\ listener = NotListening
  /\ listener' \in Listeners
  /\ UNCHANGED <<login, probe, directory, known>>

Goes(g, l) == login' = [login EXCEPT ![g] = l]

Told(l, frames) == [l EXCEPT !.told = @ \o frames]

Closed(l, how) == [l EXCEPT !.at = "closed", !.ended = how, !.from = l.at]

\* Wire::refuse: the client is told why, then the task ends with the reason.
Refused(l) == Closed(Told(l, <<"Error">>), "Refused")

Dropped(l) == Closed(l, "Disconnected")

\* Handshake::violation, and fail for the other reasons.
Violation(l) == [Refused(l) EXCEPT !.stage = "Closed"]
---------------------------------------------------------------------------
(* Handshake (state.rs), with what negotiate sends for each of its replies. *)

OnSslRequest(l) ==
  IF l.stage # "Opening" THEN Violation(l)
  ELSE IF listener.posture = "Disabled" THEN [Told(l, <<"N">>) EXCEPT !.stage = "Settled"]
  ELSE [Told(l, <<"S">>) EXCEPT !.stage = "Settled", !.encrypted = TRUE, !.at = "upgrading"]

OnGssRequest(l) == IF l.stage \in {"Asked", "Closed"} THEN Violation(l) ELSE Told(l, <<"N">>)

OnCancel(l) ==
  IF l.stage \in {"Asked", "Closed"} THEN Violation(l)
  ELSE [Closed(l, "Cancel") EXCEPT !.stage = "Closed"]

\* A startup packet: whom it names, whether its version or an extension has to
\* be negotiated, and whether it is one the proxy turns away (another major
\* version, replication, no user, no database).
StartupPackets == [user : Users, negotiate : BOOLEAN, unservable : BOOLEAN]

\* on_message, and the start of authenticate: without static credentials a
\* static user is refused as soon as it has been asked.
OnMessage(l, m) ==
  LET offer == IF m.negotiate THEN <<"Negotiate">> ELSE << >>
      asked == [l EXCEPT !.stage = "Asked", !.user = m.user]
      sasl == [Told(asked, offer \o <<"AskSasl">>) EXCEPT !.at = "initial"]
  IN IF l.stage \in {"Asked", "Closed"} THEN Violation(l)
     ELSE IF listener.posture = "Required" /\ ~l.encrypted THEN Violation(l)
     ELSE IF m.unservable THEN Violation(l)
     ELSE IF m.user \notin StaticUsers
          THEN [Told(asked, offer \o <<"AskPassword">>) EXCEPT !.at = "password"]
     ELSE IF listener.statics THEN sasl ELSE Refused(sasl)

Listening(g, place) == listener # NotListening /\ login[g].at = place /\ ~login[g].left

\* One turn of negotiate's loop.  A packet that does not decode ends the task.
Hello(g) ==
  /\ Listening(g, "hello") /\ login[g].hellos < MaxHellos
  /\ LET l == [login[g] EXCEPT !.hellos = @ + 1]
     IN \/ Goes(g, OnSslRequest(l))
        \/ Goes(g, OnGssRequest(l))
        \/ Goes(g, OnCancel(l))
        \/ \E m \in StartupPackets : Goes(g, OnMessage(l, m))
        \/ Goes(g, Dropped(l))
  /\ UNCHANGED <<listener, probe, directory, known>>

\* Answered S.  The node may have no certificate; the client may have sent
\* bytes before it read the answer; the TLS handshake may fail.  The same
\* Handshake goes on, on the new stream.
Upgrades(g) ==
  /\ Listening(g, "upgrading")
  /\ IF ~listener.certificate THEN Goes(g, Refused(login[g]))
     ELSE \/ Goes(g, Dropped(login[g]))
          \/ Goes(g, [login[g] EXCEPT !.at = "hello"])
  /\ UNCHANGED <<listener, probe, directory, known>>
---------------------------------------------------------------------------
(* The credential (auth.rs, and its half of shell.rs). *)

\* A password message with a token, one that cannot be a token, or another
\* message altogether.
Password(g) ==
  /\ Listening(g, "password")
  /\ \/ \E o \in {"valid", "invalid"} :
          Goes(g, [login[g] EXCEPT !.at = "resolving", !.offered = o])
     \/ Goes(g, Refused(login[g]))
  /\ UNCHANGED <<listener, probe, directory, known>>

\* What the resolver says, and on_resolved: it vouches only for a valid token,
\* and a grant expired at the instant read before the password is refused.
\* With a grant the connector learns the tenant's backends, and a server whose
\* parameters are known needs no probe.
Resolves(g) ==
  /\ login[g].at = "resolving"
  /\ \/ Goes(g, Refused(login[g])) /\ UNCHANGED directory
     \/ /\ login[g].offered = "valid"
        /\ directory' = directory \cup {TenantKey}
        /\ Goes(g, IF known = {} THEN [login[g] EXCEPT !.at = "dial"]
                      ELSE [login[g] EXCEPT !.at = "welcome", !.params = CHOOSE e \in known : TRUE])
  /\ UNCHANGED <<listener, probe, known>>

\* SASLInitialResponse: a user without a credential gets a challenge all the same.
OnInitial(g) ==
  /\ Listening(g, "initial")
  /\ \/ Goes(g, Refused(login[g]))
     \/ Goes(g, [Told(login[g], <<"SaslContinue">>) EXCEPT !.at = "proof"])
  /\ UNCHANGED <<listener, probe, directory, known>>

\* SASLResponse: malformed, or a proof that is right or is not.
OnResponse(g) ==
  /\ Listening(g, "proof")
  /\ \/ Goes(g, Refused(login[g]))
     \/ \E o \in {"valid", "invalid"} :
          LET l == [login[g] EXCEPT !.offered = o]
          IN Goes(g, IF o = "valid" /\ l.user = "operator"
                        THEN [Told(l, <<"SaslFinal">>) EXCEPT !.at = "welcome", !.params = {"proxy"}]
                        ELSE Refused(l))
  /\ UNCHANGED <<listener, probe, directory, known>>
---------------------------------------------------------------------------
(* ParameterCache::ensure (probe.rs) and the connection it opens (connect.rs, *)
(* dial.rs).                                                                  *)

\* The backend is looked up and dialled: it may be unreachable, have a name TLS
\* cannot verify, answer no to TLS, or fail the TLS handshake.
DialFails(g) == login[g].at = "dial" /\ Goes(g, Refused(login[g]))
                /\ UNCHANGED <<listener, probe, directory, known>>

\* begin, and the startup packet.
Dials(g) ==
  /\ login[g].at = "dial" /\ TenantKey \in directory
  /\ Goes(g, [login[g] EXCEPT !.at = "upstream"])
  /\ probe' = [probe EXCEPT ![g] = [NoProbe EXCEPT !.stage = "Authenticating"]]
  /\ UNCHANGED <<listener, directory, known>>

\* What Postgres may send next, and where that leaves it.  It always reports its
\* version.
Says(server) ==
  CASE server = "start" -> {<<"AuthOk", "settling">>, <<"Cleartext", "password">>, <<"Sasl", "first">>,
                            <<"Md5", "gone">>}
    [] server = "password" -> {<<"AuthOk", "settling">>}
    [] server = "first" -> {<<"SaslContinue", "final">>}
    [] server = "final" -> {<<"SaslFinal", "verified">>}
    [] server = "verified" -> {<<"AuthOk", "settling">>}
    [] server = "settling" -> {<<"application_name", "settling">>, <<"server_version", "reported">>}
    [] server = "reported" -> {<<"application_name", "reported">>, <<"Ready", "ready">>}
    [] OTHER -> {}

Reported == {"server_version", "application_name"}

\* UpstreamHandshake::on_frame and on_auth, and what drive makes of the reply.
OnFrame(p, m) ==
  CASE m = "AuthOk" -> [p EXCEPT !.stage = "Settling"]
    [] m = "Sasl" /\ ~p.exchange -> [p EXCEPT !.exchange = TRUE]
    [] m \in {"SaslContinue", "SaslFinal"} /\ p.exchange -> p
    [] m = "Cleartext" -> p
    [] m \in Reported -> [p EXCEPT !.params = @ \cup {m}]
    [] m = "Ready" /\ p.stage = "Settling" -> [p EXCEPT !.stage = "Ready"]
    [] OTHER -> [p EXCEPT !.stage = "Failed"]

\* ParameterCache::record leaves out what the proxy set for itself.
Kept(params) == params \ {"application_name"}

\* A probe that failed: the client is told before its socket is closed.
ProbeFailedQuietly(l) == Dropped(l)
ProbeFailed(l) == Refused(l)

\* A frame of the probe.  Ready ends it: the parameters are recorded, the
\* connection says goodbye, and the cache is read again.
ServerSays(g) ==
  /\ login[g].at = "upstream"
  /\ \E s \in Says(probe[g].server) :
       LET p == [OnFrame(probe[g], s[1]) EXCEPT !.server = s[2]]
       IN /\ probe' = [probe EXCEPT ![g] = IF p.stage \in {"Ready", "Failed"} THEN NoProbe ELSE p]
          /\ known' = IF p.stage = "Ready" THEN {Kept(p.params)} ELSE known
          /\ CASE p.stage = "Ready" ->
                    Goes(g, [login[g] EXCEPT !.at = "welcome", !.params = Kept(p.params)])
               [] p.stage = "Failed" -> Goes(g, ProbeFailed(login[g]))
               [] OTHER -> UNCHANGED login
  /\ UNCHANGED <<listener, directory>>

\* The server answers with an error, or its socket fails.
ServerFails(g) ==
  /\ login[g].at = "upstream"
  /\ Goes(g, ProbeFailed(login[g]))
  /\ probe' = [probe EXCEPT ![g] = NoProbe]
  /\ UNCHANGED <<listener, directory, known>>
---------------------------------------------------------------------------
\* A cancel key is issued, or there is no entropy for one; accept sends the rest
\* in one write.
Welcome(g) ==
  /\ login[g].at = "welcome" /\ ~login[g].left
  /\ \/ Goes(g, Refused(login[g]))
     \/ Goes(g, [Told(login[g], <<"Ok", "Params", "Key", "Ready">>) EXCEPT !.at = "in"])
  /\ UNCHANGED <<listener, probe, directory, known>>

\* The steps that run under the login deadline.
UnderDeadline == {"hello", "upgrading", "password", "resolving", "initial", "proof"}

\* until: nothing is sent.
TimesOut(g) ==
  /\ listener # NotListening /\ login[g].at \in UnderDeadline
  /\ Goes(g, Dropped(login[g]))
  /\ UNCHANGED <<listener, probe, directory, known>>

\* The client goes away.  A task that waits for it finds out at once, one that
\* is busy on its behalf when it next writes.
Disconnects(g) ==
  /\ listener # NotListening /\ login[g].at \notin {"in", "closed"} /\ ~login[g].left
  /\ LET l == [login[g] EXCEPT !.left = TRUE]
     IN Goes(g, IF l.at \in {"resolving", "dial", "upstream", "welcome"} THEN l ELSE Dropped(l))
  /\ UNCHANGED <<listener, probe, directory, known>>

FindsItGone(g) ==
  /\ login[g].left /\ login[g].at = "welcome"
  /\ Goes(g, Dropped(login[g]))
  /\ UNCHANGED <<listener, probe, directory, known>>

\* Another client connects, where the last one has gone or is being served.
Again(g) ==
  /\ login[g].at \in {"in", "closed"}
  /\ Goes(g, NewLogin)
  /\ UNCHANGED <<listener, probe, directory, known>>

LoginNext ==
  \/ Listens
  \/ \E g \in Guests :
       \/ Hello(g) \/ Upgrades(g)
       \/ Password(g) \/ Resolves(g) \/ OnInitial(g) \/ OnResponse(g)
       \/ DialFails(g) \/ Dials(g) \/ ServerSays(g) \/ ServerFails(g)
       \/ Welcome(g) \/ TimesOut(g) \/ Disconnects(g) \/ FindsItGone(g) \/ Again(g)

LoginSpec == LoginInit /\ [][LoginNext]_loginVars
---------------------------------------------------------------------------
LoginTypeOK ==
  /\ listener \in Listeners \cup {NotListening}
  /\ directory \subseteq {TenantKey} /\ known \subseteq SUBSET Reported
  /\ \A g \in Guests :
       /\ login[g].at \in LoginPlaces /\ login[g].stage \in HandshakeStages
       /\ login[g].user \in Users \cup {NotYet} /\ login[g].hellos \in 0..MaxHellos
       /\ probe[g].params \subseteq Reported

\* The exchange a user is put through, as far as it may have come, and all of it.
Exchange(user) ==
  IF user \in StaticUsers
  THEN {<< >>, <<"AskSasl">>, <<"AskSasl", "SaslContinue">>, <<"AskSasl", "SaslContinue", "SaslFinal">>}
  ELSE {<< >>, <<"AskPassword">>}
Complete(user) ==
  IF user \in StaticUsers THEN <<"AskSasl", "SaslContinue", "SaslFinal">> ELSE <<"AskPassword">>

\* A client is let in only at the end of the exchange, and is told at most once
\* that it is not.
Endings(user, body) ==
  {<< >>, <<"Error">>} \cup (IF body = Complete(user) THEN {<<"Ok", "Params", "Key", "Ready">>} ELSE {})

\* The frames a client has read are a startup conversation, as far as it has
\* come: bytes that answer its requests, a version if there is one to negotiate,
\* the exchange, and an ending.
Conversation(l) ==
  \E n \in 0..Len(l.told), offer \in {<< >>, <<"Negotiate">>}, body \in Exchange(l.user) :
    /\ SubSeq(l.told, 1, n) \in Seq({"S", "N"})
    /\ \E ending \in Endings(l.user, body) :
         SubSeq(l.told, n + 1, Len(l.told)) = (offer \o body) \o ending

\* What a login tells a client is true and complete (session, serve_client and
\* authenticate in serve.rs).  The client reads a startup conversation; one told
\* it is in has given a credential that was checked, over TLS where the listener
\* requires it, a static user only with a credential of its own, and a tenant is
\* told what its server reported; and one that is sent away while still there has
\* been told why, unless it had not yet given its credential, or its time ran
\* out while the token service was asked.
LoginTellsTheTruth ==
  \A g \in Guests :
    LET l == login[g]
    IN /\ Conversation(l)
       /\ l.at = "in" =>
            /\ l.offered = "valid" /\ l.user # "stranger"
            /\ listener.posture = "Required" => l.encrypted
            /\ IF l.user = "tenant" THEN l.params = {"server_version"} ELSE l.params = {"proxy"}
       /\ (l.ended = "Refused") = (l.told # << >> /\ l.told[Len(l.told)] = "Error")
       /\ l.ended = "Disconnected" /\ ~l.left => l.from \in UnderDeadline
============================================================================
