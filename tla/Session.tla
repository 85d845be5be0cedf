------------------------------ MODULE Session ------------------------------
(***************************************************************************)
(* One session from mysql_xdevapi\getSession to its end                    *)
(* (src/xmysqlnd/xmysqlnd_session.cc): connect_session tries the addresses *)
(* of the URI in priority order; an attempt opens the stream, sends the    *)
(* connection attributes, reads the capabilities, negotiates compression   *)
(* (xmysqlnd_compression_setup.cc), enables TLS and authenticates; a       *)
(* session that was obtained is then reset, closed by the user, or closed  *)
(* by a notice of the server.                                              *)
(*                                                                         *)
(* Every request to the server and its answer is one step, so the server,  *)
(* the network and the client interleave at message granularity.  The      *)
(* server answers as the X Protocol allows: it accepts, refuses, or the    *)
(* connection is lost.  Names, passwords, ports and texts are left out.    *)
(***************************************************************************)
EXTENDS Naturals, Sequences

CONSTANTS
  Options,      \* what a URI may ask for: a set of records, see OptionType
  ServerCaps,   \* the capability sets a server may announce
  Algorithms,   \* compression algorithms known to to_algorithm
  Built         \* those whose library this build of the extension has

VARIABLES
  opt,      \* the parsed URI: fixed for the whole connect_session
  pc,       \* where the call is
  idx,      \* the address being tried, 0 before the first
  data,     \* the members of xmysqlnd_session_data
  caps,     \* Authenticate::capabilities
  todo,     \* what is left of the loop over algorithms or mechanisms
  link,     \* the connection as the server sees it (external)
  sent,     \* every authentication started: mechanism, was the link secure
  lastErr,  \* last_error_info of connect_session
  outcome   \* what connect_session gave its caller

vars == <<opt, pc, idx, data, caps, todo, link, sent, lastErr, outcome>>

Mechanisms == {"PLAIN", "MYSQL41", "SHA256_MEMORY", "EXTERNAL"}
Policies == {"disabled", "preferred", "required"}

\* An address is a TCP host or a Unix socket; "badurl" is one
\* extract_uri_information rejects, "badopt" one whose query
\* extract_auth_information rejects.
AddressKinds == {"tcp", "socket", "badurl", "badopt"}

\* Session_auth_data as extract_auth_information leaves it.  Only
\* ssl-mode=disabled means no TLS: an unspecified mode becomes "required".
OptionType ==
  [uri : Seq(AddressKinds), tls : BOOLEAN, openssl : BOOLEAN,
   mech : Mechanisms \cup {"unspecified"}, policy : Policies,
   algs : Seq(Algorithms), attrs : BOOLEAN]

CapsType == [tls : BOOLEAN, mechs : SUBSET Mechanisms, comp : SUBSET Algorithms]

ASSUME SessionAssumption ==
  /\ Built \subseteq Algorithms
  /\ "none" \notin Algorithms
  /\ ServerCaps \subseteq CapsType
  /\ Options \subseteq OptionType
  /\ \A o \in Options : o.uri # <<>>

NoCaps == [tls |-> FALSE, mechs |-> {}, comp |-> {}]
NoLink == [up |-> FALSE, tls |-> FALSE, comp |-> "none", authed |-> FALSE,
           keep |-> FALSE, host |-> 0]

CloseReasons == {"None", "Explicit", "Implicit", "io_read_error",
                 "server_shutdown", "session_was_killed"}
ErrorReasons == {"io_read_error", "server_shutdown", "session_was_killed"}
Errors == {"none", "refused", "server", "io", "tls", "ssl", "auth", "oom"}

\* A session as its constructor leaves it.
NewData ==
  [state |-> "ALLOCATED", close_reason |-> "None", auth |-> 0,
   callback |-> TRUE, comp |-> "none", error |-> "none", mechs |-> <<>>,
   keep |-> "unknown", ps |-> FALSE]

Init ==
  /\ opt \in Options
  /\ pc = "address" /\ idx = 0
  /\ data = NewData
  /\ caps = NoCaps /\ todo = <<>>
  /\ link = NoLink /\ sent = {}
  /\ lastErr = "none" /\ outcome = "none"

-----------------------------------------------------------------------------
\* The answers of the server.  A lost connection stays lost.
Answers == IF link.up THEN {"OK", "ERROR", "LOST"} ELSE {"LOST"}

After(r) == IF r = "LOST" THEN [link EXCEPT !.up = FALSE] ELSE link

\* xmysqlnd_receive_message: the request passes unless the answer is an
\* ERROR or nothing can be read; a message the reader has no handler for
\* counts as HND_PASS, which is how the capabilities_get reader accepts the
\* OK that answers a CapabilitiesSet.
Passes(r) == r = "OK"

\* What error_info holds after a failed request.
ErrorOf(r) == IF r = "LOST" THEN "io" ELSE "server"

\* xmysqlnd_session_data::cleanup. The error number survives it.
Cleanup(d) == [d EXCEPT !.auth = 0, !.comp = "none", !.callback = FALSE]

\* is_session_properly_supported: asked of the server once, then cached; an
\* answer that does not arrive counts as "no".
Probed(d) ==
  IF d.keep # "unknown" THEN d
  ELSE [d EXCEPT !.keep = IF link.up /\ link.keep THEN "yes" ELSE "no"]

\* Mutant: a closed session is closed again, with the new reason.
SendClose_Overwrites(d, reason) ==
  [(IF d.state = "READY" THEN Probed(d) ELSE d) EXCEPT
     !.state = "CLOSED", !.close_reason = reason]

\* xmysqlnd_session_data::send_close: the stream is closed and the reason is
\* kept, once.  A READY session asks whether SESS_CLOSE is supported first.
SendClose(d, reason) ==
  IF d.state = "CLOSED" THEN d
  ELSE [(IF d.state = "READY" THEN Probed(d) ELSE d) EXCEPT
          !.state = "CLOSED", !.close_reason = reason]

\* The failing end of xmysqlnd_session_data::connect and what
\* connect_session does with it: an error without a number becomes an OOM
\* error, the session is cleaned up, the next address follows.
FailAttempt(d, e) ==
  LET error == IF e # "none" THEN e
               ELSE IF d.error # "none" THEN d.error ELSE "oom"
  IN  /\ data' = Cleanup([d EXCEPT !.error = error])
      /\ lastErr' = error
      /\ pc' = "address"

\* An exception leaves connect_session, past all its loops.
Throw == pc' = "leaving" /\ outcome' = "exception"

-----------------------------------------------------------------------------
(***************************************************************************)
(* connect_session.                                                        *)
(***************************************************************************)

\* Mutant: a rejected query leads back to the same address.
NextAddress_Retries ==
  /\ pc = "address" /\ idx < Len(opt.uri)
  /\ IF opt.uri[idx + 1] = "badopt" THEN UNCHANGED <<pc, idx, data>>
     ELSE /\ idx' = idx + 1
          /\ data' = [data EXCEPT !.auth = idx + 1]
          /\ pc' = "connect"
  /\ UNCHANGED <<opt, caps, todo, link, sent, lastErr, outcome>>

\* The loop over the addresses up to establish_connection, which stores the
\* Session_auth_data in the session.
NextAddress ==
  /\ pc = "address" /\ idx < Len(opt.uri)
  /\ idx' = idx + 1
  /\ LET kind == opt.uri[idx + 1] IN
     \/ /\ \/ kind = "badurl"
           \/ opt.tls /\ kind = "socket"
           \/ opt.tls /\ kind = "tcp" /\ ~opt.openssl
        /\ Throw
        /\ UNCHANGED data
     \/ /\ kind = "badopt"
        /\ UNCHANGED <<pc, data, outcome>>
     \/ /\ kind \in {"tcp", "socket"}
        /\ opt.tls => kind = "tcp" /\ opt.openssl
        /\ data' = [data EXCEPT !.auth = idx + 1]
        /\ pc' = "connect"
        /\ UNCHANGED outcome
  /\ UNCHANGED <<opt, caps, todo, link, sent, lastErr>>

\* xmysqlnd_session_data::connect on a session an earlier address left in
\* CONNECTING or NON_AUTHENTICATED: it is closed and cleaned up, which
\* resets auth, and auth->hostname is read next.
ConnectAgain ==
  /\ pc = "connect" /\ data.state # "ALLOCATED"
  /\ data' = Cleanup([SendClose(data, "Implicit") EXCEPT !.error = "none"])
  /\ link' = NoLink
  /\ pc' = "crashed"
  /\ UNCHANGED <<opt, idx, caps, todo, sent, lastErr, outcome>>

\* connect up to the open stream (connect_handshake): a refused connection
\* leaves the session ALLOCATED.
OpenStream ==
  /\ pc = "connect" /\ data.state = "ALLOCATED"
  /\ LET d == [data EXCEPT !.error = "none"] IN
     \/ /\ FailAttempt(d, "refused")
        /\ UNCHANGED link
     \/ /\ \E keep \in BOOLEAN :
             link' = [NoLink EXCEPT !.up = TRUE, !.keep = keep, !.host = idx]
        /\ data' = [d EXCEPT !.state = "CONNECTING"]
        /\ pc' = "attributes"
        /\ UNCHANGED lastErr
  /\ UNCHANGED <<opt, idx, caps, todo, sent, outcome>>

\* send_client_attributes.
SendClientAttributes ==
  /\ pc = "attributes"
  /\ IF opt.attrs
     THEN \E r \in Answers :
            /\ link' = After(r)
            /\ IF Passes(r) THEN pc' = "capabilities" /\ UNCHANGED <<data, lastErr>>
               ELSE FailAttempt(data, ErrorOf(r))
     ELSE pc' = "capabilities" /\ UNCHANGED <<data, link, lastErr>>
  /\ UNCHANGED <<opt, idx, caps, todo, sent, outcome>>

\* Authenticate::init_capabilities.
InitCapabilities ==
  /\ pc = "capabilities"
  /\ \E r \in Answers :
       /\ link' = After(r)
       /\ IF Passes(r)
          THEN \E c \in ServerCaps :
                 caps' = c /\ pc' = "compression" /\ UNCHANGED <<data, lastErr>>
          ELSE FailAttempt(data, ErrorOf(r)) /\ UNCHANGED caps
  /\ UNCHANGED <<opt, idx, todo, sent, outcome>>

(***************************************************************************)
(* Compression: Setup::run and Setup::negotiate.                           *)
(***************************************************************************)

\* is_any_compressor_available
AnyCompressorAvailable == \E i \in 1..Len(opt.algs) : opt.algs[i] \in Built

\* is_algorithm_supported
AlgorithmSupported(a) == a \in caps.comp /\ a \in Built

\* The checks of Setup::run before the negotiation.
SetupCompression ==
  /\ pc = "compression"
  /\ \/ /\ opt.policy = "disabled"
        /\ data' = [data EXCEPT !.comp = "none"]
        /\ pc' = "tls"
        /\ UNCHANGED <<todo, outcome>>
     \/ /\ opt.policy = "required"
        /\ caps.comp = {} \/ ~AnyCompressorAvailable
        /\ Throw
        /\ UNCHANGED <<data, todo>>
     \/ /\ opt.policy # "disabled"
        /\ opt.policy = "required" => caps.comp # {} /\ AnyCompressorAvailable
        /\ todo' = opt.algs
        /\ pc' = "negotiate"
        /\ UNCHANGED <<data, outcome>>
  /\ UNCHANGED <<opt, idx, caps, link, sent, lastErr>>

\* Mutant: the server's refusal is not looked at.
NegotiateAlgorithm_AnyAnswer ==
  /\ pc = "negotiate" /\ todo # <<>>
  /\ \E r \in Answers :
       /\ link' = IF r = "OK" THEN [link EXCEPT !.comp = Head(todo)] ELSE After(r)
       /\ data' = [data EXCEPT !.comp = Head(todo)]
  /\ todo' = <<>> /\ pc' = "tls"
  /\ UNCHANGED <<opt, idx, caps, sent, lastErr, outcome>>

\* The negotiation loop skips an algorithm that one side does not have.
SkipAlgorithm ==
  /\ pc = "negotiate" /\ todo # <<>> /\ ~AlgorithmSupported(Head(todo))
  /\ todo' = Tail(todo)
  /\ UNCHANGED <<opt, pc, idx, data, caps, link, sent, lastErr, outcome>>

\* One CapabilitiesSet of the negotiation loop.  Negotiate::handler_on_error
\* throws on a refusal, whatever the policy; only a lost answer goes on to
\* the next algorithm.
NegotiateAlgorithm ==
  /\ pc = "negotiate" /\ todo # <<>> /\ AlgorithmSupported(Head(todo))
  /\ \E r \in Answers :
       \/ /\ r = "OK"
          /\ link' = [link EXCEPT !.comp = Head(todo)]
          /\ data' = [data EXCEPT !.comp = Head(todo)]
          /\ todo' = <<>> /\ pc' = "tls"
          /\ UNCHANGED outcome
       \/ /\ r = "ERROR"
          /\ Throw
          /\ UNCHANGED <<link, data, todo>>
       \/ /\ r = "LOST"
          /\ link' = After(r)
          /\ todo' = Tail(todo)
          /\ UNCHANGED <<data, pc, outcome>>
  /\ UNCHANGED <<opt, idx, caps, sent, lastErr>>

\* No algorithm was agreed on: an error only if compression is required.
NegotiationFails ==
  /\ pc = "negotiate" /\ todo = <<>>
  /\ IF opt.policy = "required" THEN Throw /\ UNCHANGED data
     ELSE /\ data' = [data EXCEPT !.comp = "none"]
          /\ pc' = "tls"
          /\ UNCHANGED outcome
  /\ UNCHANGED <<opt, idx, caps, todo, link, sent, lastErr>>

(***************************************************************************)
(* TLS and authentication: Authenticate::run_auth.                         *)
(***************************************************************************)

\* Mutant: TLS is used only if the server offers it.
InitConnection_IfOffered ==
  /\ pc = "tls"
  /\ link' = [link EXCEPT !.tls = opt.tls /\ caps.tls]
  /\ data' = [data EXCEPT !.state = "NON_AUTHENTICATED"]
  /\ pc' = "gather"
  /\ UNCHANGED <<opt, idx, caps, todo, sent, lastErr, outcome>>

\* setup_crypto_connection: the tls capability is set, then the stream is
\* switched to TLS with the options of the URI.
SetupCryptoConnection ==
  \E r \in Answers, handshake \in BOOLEAN :
    IF Passes(r) /\ handshake
    THEN /\ link' = [link EXCEPT !.tls = TRUE]
         /\ data' = [data EXCEPT !.state = "NON_AUTHENTICATED"]
         /\ pc' = "gather"
         /\ UNCHANGED lastErr
    ELSE /\ link' = After(r)
         /\ FailAttempt(data, IF Passes(r) THEN "ssl" ELSE "tls")

\* Authenticate::init_connection, and the state change of run_auth after it.
InitConnection ==
  /\ pc = "tls"
  /\ \/ /\ ~opt.tls
        /\ data' = [data EXCEPT !.state = "NON_AUTHENTICATED"]
        /\ pc' = "gather"
        /\ UNCHANGED <<link, lastErr>>
     \/ /\ opt.tls /\ ~caps.tls
        /\ FailAttempt(data, "none")
        /\ UNCHANGED link
     \/ opt.tls /\ caps.tls /\ SetupCryptoConnection
  /\ UNCHANGED <<opt, idx, caps, todo, sent, outcome>>

\* add_auth_mechanism_if_supported
IfSupported(m) == IF m \in caps.mechs THEN <<m>> ELSE <<>>

\* Mutant: the user's choice is tried even if there is none.
GatheredMechanisms_UserOnly == <<opt.mech>>

\* Gather_auth_mechanisms::run
GatheredMechanisms ==
  IF opt.mech # "unspecified" THEN <<opt.mech>>
  ELSE IF opt.tls THEN <<"PLAIN">>
  ELSE IfSupported("MYSQL41") \o IfSupported("SHA256_MEMORY")

GatherAuthMechanisms ==
  /\ pc = "gather"
  /\ LET mechs == GatheredMechanisms IN
     IF mechs = <<>> THEN FailAttempt(data, "none") /\ UNCHANGED todo
     ELSE /\ data' = [data EXCEPT !.mechs = mechs]
          /\ todo' = mechs
          /\ pc' = "auth"
          /\ UNCHANGED lastErr
  /\ UNCHANGED <<opt, idx, caps, link, sent, outcome>>

\* The end of a successful connect and connect_session.
Connected(d) ==
  /\ data' = [d EXCEPT !.state = "READY", !.error = "none", !.ps = TRUE]
  /\ outcome' = "session"
  /\ pc' = "user"

\* What the plugin of create_auth_plugin lets out on the link: the password
\* for PLAIN, a scramble for the others, nothing for EXTERNAL.
Credentials(m) == [mech |-> m, tls |-> link.tls]

\* authenticate_with_plugin for the next mechanism of the loop; with several
\* mechanisms the errors of each are muted.  In a re-authentication the
\* session stays NON_AUTHENTICATED and its capabilities are overwritten by
\* the empty ones of the new Authenticate.
TryMechanism ==
  /\ pc \in {"auth", "reauth"} /\ todo # <<>>
  /\ sent' = sent \cup {Credentials(Head(todo))}
  /\ \E r \in Answers :
       IF Passes(r)
       THEN /\ link' = [link EXCEPT !.authed = TRUE]
            /\ todo' = <<>>
            /\ IF pc = "auth" THEN Connected(data) /\ UNCHANGED caps
               ELSE pc' = "user" /\ caps' = NoCaps /\ UNCHANGED <<data, outcome>>
       ELSE /\ link' = After(r)
            /\ todo' = Tail(todo)
            /\ data' = IF r = "ERROR" /\ Len(data.mechs) > 1 THEN data
                       ELSE [data EXCEPT !.error = ErrorOf(r)]
            /\ UNCHANGED <<pc, caps, outcome>>
  /\ UNCHANGED <<opt, idx, lastErr>>

\* No mechanism was accepted.  reset() returns FAIL, which its only caller
\* ignores.
AuthenticationFails ==
  /\ pc \in {"auth", "reauth"} /\ todo = <<>>
  /\ LET d == IF Len(data.mechs) > 1 THEN [data EXCEPT !.error = "auth"] ELSE data
     IN  IF pc = "auth" THEN FailAttempt(d, "none") /\ UNCHANGED caps
         ELSE data' = d /\ pc' = "user" /\ caps' = NoCaps /\ UNCHANGED lastErr
  /\ UNCHANGED <<opt, idx, todo, link, sent, outcome>>

\* After the loop: several addresses give a generic exception, a single one
\* its own error, if it has one; otherwise FAIL is returned without any.
GiveUp ==
  /\ pc = "address" /\ idx = Len(opt.uri)
  /\ outcome' = IF Len(opt.uri) > 1 \/ lastErr # "none" THEN "exception" ELSE "null"
  /\ pc' = "leaving"
  /\ UNCHANGED <<opt, idx, data, caps, todo, link, sent, lastErr>>

\* Mutant: the object of a failed connect is freed without closing.
FreeFailed_NoClose ==
  /\ pc = "leaving"
  /\ pc' = "done"
  /\ UNCHANGED <<opt, idx, data, caps, todo, link, sent, lastErr, outcome>>

\* xmysqlnd_new_session_connect frees the Session object of a failed
\* connect, and mysqlx_session_free_storage closes its connection.
FreeFailed ==
  /\ pc = "leaving"
  /\ data' = SendClose(data, "Explicit")
  /\ link' = NoLink
  /\ pc' = "done"
  /\ UNCHANGED <<opt, idx, caps, todo, sent, lastErr, outcome>>

-----------------------------------------------------------------------------
(***************************************************************************)
(* The session in the user's hands.                                        *)
(***************************************************************************)

\* Session::close, any number of times.
Close ==
  /\ pc = "user"
  /\ data' = SendClose(data, "Explicit")
  /\ link' = NoLink
  /\ UNCHANGED <<opt, pc, idx, caps, todo, sent, lastErr, outcome>>

\* The last reference goes away: mysqlx_session_free_storage.
Free ==
  /\ pc = "user"
  /\ data' = SendClose(data, "Explicit")
  /\ link' = NoLink
  /\ pc' = "done"
  /\ UNCHANGED <<opt, idx, caps, todo, sent, lastErr, outcome>>

\* A statement reads a notice that the server closes the connection:
\* process_server_notifications calls the session back, which closes itself
\* with that reason and throws.  After a failed-over connect there is no
\* callback to call.
ServerNotice ==
  /\ pc = "user" /\ link.up /\ data.state # "CLOSED"
  /\ \E reason \in ErrorReasons :
       IF data.callback
       THEN data' = SendClose(data, reason) /\ link' = NoLink /\ UNCHANGED pc
       ELSE pc' = "crashed" /\ UNCHANGED <<data, link>>
  /\ UNCHANGED <<opt, idx, caps, todo, sent, lastErr, outcome>>

\* The connection breaks between two requests (external).
LinkLost ==
  /\ pc = "user" /\ link.up
  /\ link' = After("LOST")
  /\ UNCHANGED <<opt, pc, idx, data, caps, todo, sent, lastErr, outcome>>

\* Mutant: send_reset leaves a READY session READY whatever keep_open is.
Reset_StaysReady ==
  /\ pc = "user"
  /\ LET d == Probed(data) IN
     \E r \in Answers :
       IF data.state = "CLOSED" \/ ~Passes(r)
       THEN data' = d /\ link' = After(r) /\ UNCHANGED <<pc, todo>>
       ELSE /\ data' = d
            /\ link' = [link EXCEPT !.authed = d.keep = "yes"]
            /\ IF d.keep = "yes" THEN UNCHANGED <<pc, todo>>
               ELSE todo' = data.mechs /\ pc' = "reauth"
  /\ UNCHANGED <<opt, idx, caps, sent, lastErr, outcome>>

\* xmysqlnd_session::reset with send_reset: a server without keep_open drops
\* the authentication, and the session authenticates again.  A refused or
\* lost reset, or a closed session, throws.
Reset ==
  /\ pc = "user"
  /\ LET d == Probed(data) IN
     \E r \in Answers :
       IF data.state = "CLOSED" \/ ~Passes(r)
       THEN data' = d /\ link' = After(r) /\ UNCHANGED <<pc, todo>>
       ELSE IF d.keep = "yes"
       THEN data' = d /\ UNCHANGED <<pc, todo, link>>
       ELSE /\ data' = [d EXCEPT !.state = "NON_AUTHENTICATED"]
            /\ link' = [link EXCEPT !.authed = FALSE]
            /\ todo' = data.mechs
            /\ pc' = "reauth"
  /\ UNCHANGED <<opt, idx, caps, sent, lastErr, outcome>>

-----------------------------------------------------------------------------
ConnectStep ==
  \/ NextAddress \/ ConnectAgain \/ OpenStream \/ SendClientAttributes
  \/ InitCapabilities \/ SetupCompression \/ SkipAlgorithm
  \/ NegotiateAlgorithm \/ NegotiationFails \/ InitConnection \/ GatherAuthMechanisms
  \/ TryMechanism \/ AuthenticationFails \/ GiveUp \/ FreeFailed

Next ==
  \/ ConnectStep
  \/ Close \/ Free \/ ServerNotice \/ LinkLost \/ Reset

Spec == Init /\ [][Next]_vars

\* The calling thread runs, and every request ends with an answer or with
\* the stream's timeout.
FairSpec == Spec /\ WF_vars(ConnectStep)

-----------------------------------------------------------------------------
(***************************************************************************)
(* Properties.                                                             *)
(***************************************************************************)

\* The values every variable takes; in particular only real mechanisms are
\* ever gathered by Gather_auth_mechanisms and stored for re-authentication.
TypeOK ==
  /\ opt \in Options
  /\ pc \in {"address", "connect", "attributes", "capabilities", "compression",
            "negotiate", "tls", "gather", "auth", "reauth", "leaving", "user",
            "done", "crashed"}
  /\ idx \in 0..Len(opt.uri)
  /\ data.state \in {"ALLOCATED", "CONNECTING", "NON_AUTHENTICATED", "READY", "CLOSED"}
  /\ data.close_reason \in CloseReasons
  /\ data.auth \in 0..Len(opt.uri)
  /\ data.comp \in Algorithms \cup {"none"}
  /\ data.error \in Errors /\ lastErr \in Errors
  /\ data.mechs \in Seq(Mechanisms)
  /\ data.keep \in {"unknown", "yes", "no"}
  /\ data.callback \in BOOLEAN /\ data.ps \in BOOLEAN
  /\ caps \in ServerCaps \cup {NoCaps}
  /\ todo \in Seq(Algorithms \cup Mechanisms)
  /\ link.comp \in Algorithms \cup {"none"}
  /\ outcome \in {"none", "session", "exception", "null"}

\* No authentication starts over a link weaker than the URI asked for, at
\* the first attempt, after a failover or in a re-authentication: unless
\* ssl-mode is disabled the link is encrypted, and the password itself
\* (PLAIN) crosses an open link only if the user named that mechanism.
CredentialsProtected ==
  \A s \in sent :
     /\ opt.tls => s.tls
     /\ s.mech = "PLAIN" /\ opt.mech = "unspecified" => s.tls

\* A READY session in the user's hands is one the server has authenticated,
\* on the address connect_session stopped at, encrypted if TLS was asked
\* for, with the credentials it needs for a re-authentication; also after
\* any number of resets.
ReadyIsAuthenticated ==
  pc = "user" /\ data.state = "READY" =>
    /\ link.authed
    /\ link.host = idx /\ data.auth = idx
    /\ opt.tls => link.tls
    /\ data.mechs # <<>>

\* Client and server agree on the compression of an open session, and a
\* session with compression=required has one of the algorithms its user
\* allowed.
CompressionAgrees ==
  pc = "user" /\ data.state # "CLOSED" =>
    /\ data.comp = link.comp
    /\ opt.policy = "disabled" => data.comp = "none"
    /\ opt.policy = "required" =>
         \E i \in 1..Len(opt.algs) : data.comp = opt.algs[i] /\ data.comp \in Built

\* A connect that fails is clean: whatever stopped it, no connection to the
\* server and no half-open session stays behind (nor after a freed Session),
\* and connect_session returns FAIL without an exception only if it attempted
\* no connection at all: every attempt that failed left an error number.
FailureIsClean ==
  /\ pc = "done" => ~link.up /\ data.state = "CLOSED"
  /\ outcome = "null" => \A i \in 1..Len(opt.uri) : opt.uri[i] = "badopt"

\* A closed session stays closed, and later closes, resets and frees never
\* replace the reason of the first close.
ClosedForGood ==
  [][data.state = "CLOSED" =>
       data'.state = "CLOSED" /\ data'.close_reason = data.close_reason]_vars

\* getSession ends, whatever the addresses and servers do.
GetSessionEnds == <>(pc \in {"user", "done", "crashed"})

\* The comment of connect_session: "For each address attempt to perform a
\* connection".  No failed address keeps the next one from being tried.
EachAddressAttempted == pc = "crashed" => outcome = "session"

=============================================================================
