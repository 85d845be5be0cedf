--------------------------- MODULE SessionProofs ---------------------------
(***************************************************************************)
(* The safety properties of Session, for every set of options, servers and *)
(* algorithms and any number of addresses.                                 *)
(***************************************************************************)
EXTENDS Session, TLAPS

(***************************************************************************)
(* The inductive invariant.                                                *)
(***************************************************************************)
States == {"ALLOCATED", "CONNECTING", "NON_AUTHENTICATED", "READY", "CLOSED"}
DataType ==
  [state : States, close_reason : CloseReasons, auth : Nat, callback : BOOLEAN,
   comp : Algorithms \cup {"none"}, error : Errors, mechs : Seq(Mechanisms),
   keep : {"unknown", "yes", "no"}, ps : BOOLEAN]
LinkType ==
  [up : BOOLEAN, tls : BOOLEAN, comp : Algorithms \cup {"none"}, authed : BOOLEAN,
   keep : BOOLEAN, host : Nat]

\* The session and the link are records, with the values of TypeOK.
Types == TypeOK /\ data \in DataType /\ link \in LinkType

\* Both ends are at the address being tried.
OnAddress == data.auth = idx /\ link.host = idx

\* Both ends use one algorithm, one that the options allow.
Agreed ==
  /\ data.comp = link.comp
  /\ opt.policy = "disabled" => data.comp = "none"
  /\ opt.policy = "required" =>
       \E i \in 1..Len(opt.algs) : data.comp = opt.algs[i] /\ data.comp \in Built

Secured == opt.tls => link.tls

\* No mechanism of the sequence sends a password that the user did not agree
\* to over an open link.
Careful(mechs) ==
  \A i \in 1..Len(mechs) : mechs[i] = "PLAIN" /\ opt.mech = "unspecified" => opt.tls

\* An address is tried with a session that is neither READY nor CLOSED.
Trying ==
  /\ pc \in {"address", "connect"} =>
       /\ data.state \in {"ALLOCATED", "CONNECTING", "NON_AUTHENTICATED"}
       /\ data.comp = "none"
  /\ pc = "connect" => data.auth = idx

\* Between the open stream and TLS.
Shaking ==
  /\ pc \in {"attributes", "capabilities", "compression", "negotiate", "tls"} =>
       data.state = "CONNECTING" /\ OnAddress
  /\ pc \in {"attributes", "capabilities", "compression", "negotiate"} =>
       data.comp = "none" /\ link.comp = "none"
  /\ pc = "negotiate" =>
       /\ opt.policy # "disabled"
       /\ \A i \in 1..Len(todo) : \E j \in 1..Len(opt.algs) : todo[i] = opt.algs[j]
  /\ pc = "tls" => Agreed

\* From TLS to the end of the authentication.
Authenticating ==
  /\ pc \in {"gather", "auth", "reauth"} =>
       data.state = "NON_AUTHENTICATED" /\ OnAddress /\ Agreed /\ Secured
  /\ pc \in {"auth", "reauth"} => data.mechs # <<>> /\ Careful(todo)

\* In the user's hands, until the session is closed.
InUse ==
  pc = "user" =>
    /\ data.state \in {"READY", "NON_AUTHENTICATED", "CLOSED"}
    /\ data.state # "CLOSED" => OnAddress /\ Agreed /\ Secured /\ data.mechs # <<>>
    /\ data.state = "READY" => link.authed

\* Where a session can be closed.
ClosedAt == data.state = "CLOSED" => pc \in {"user", "done", "crashed"}

\* Without an error so far, all addresses up to here were skipped.
Skipped ==
  pc = "address" /\ lastErr = "none" => \A i \in 1..idx : opt.uri[i] = "badopt"

IInv ==
  /\ Types /\ Careful(data.mechs)
  /\ Trying /\ Shaking /\ Authenticating /\ InUse /\ ClosedAt /\ Skipped
  /\ CredentialsProtected /\ FailureIsClean

-----------------------------------------------------------------------------
(***************************************************************************)
(* The operators that several actions use.                                 *)
(***************************************************************************)

\* Answers: nothing but a loss comes over a link that is down.
LEMMA AnswersType ==
  ASSUME NEW r \in Answers
  PROVE  r \in {"OK", "ERROR", "LOST"}
BY DEF Answers

\* A loss changes nothing but whether the link is up.
LEMMA AfterType ==
  ASSUME link \in LinkType, NEW r
  PROVE  /\ After(r) \in LinkType
         /\ After(r).tls = link.tls /\ After(r).comp = link.comp
         /\ After(r).host = link.host /\ After(r).authed = link.authed
BY DEF After, LinkType

\* A closed stream is a link too.
LEMMA NoLinkType == NoLink \in LinkType
BY DEF NoLink, LinkType

\* The question whether the server keeps sessions open changes nothing else.
LEMMA ProbedType ==
  ASSUME NEW d \in DataType
  PROVE  /\ Probed(d) \in DataType
         /\ Probed(d).state = d.state /\ Probed(d).close_reason = d.close_reason
         /\ Probed(d).auth = d.auth /\ Probed(d).comp = d.comp
         /\ Probed(d).mechs = d.mechs
BY DEF Probed, DataType

\* send_close closes, and leaves a closed session alone.
LEMMA SendCloseType ==
  ASSUME NEW d \in DataType, NEW reason \in CloseReasons
  PROVE  /\ SendClose(d, reason) \in DataType
         /\ SendClose(d, reason).state = "CLOSED"
         /\ SendClose(d, reason).auth = d.auth
         /\ SendClose(d, reason).mechs = d.mechs
         /\ d.state = "CLOSED" => SendClose(d, reason) = d
<1> DEFINE p == IF d.state = "READY" THEN Probed(d) ELSE d
<1>1. p \in DataType /\ p.auth = d.auth /\ p.mechs = d.mechs
  BY ProbedType
<1>2. [p EXCEPT !.state = "CLOSED", !.close_reason = reason] \in DataType
  BY <1>1 DEF DataType, States
<1> HIDE DEF p
<1>3. SendClose(d, reason) =
        IF d.state = "CLOSED" THEN d
        ELSE [p EXCEPT !.state = "CLOSED", !.close_reason = reason]
  BY DEF SendClose, p
<1> QED BY <1>1, <1>2, <1>3 DEF DataType

\* cleanup frees the credentials and the compressor.
LEMMA CleanupType ==
  ASSUME NEW d \in DataType
  PROVE  /\ Cleanup(d) \in DataType
         /\ Cleanup(d).state = d.state /\ Cleanup(d).mechs = d.mechs
         /\ Cleanup(d).comp = "none" /\ Cleanup(d).auth = 0
         /\ Cleanup(d).close_reason = d.close_reason
BY DEF Cleanup, DataType

\* A failed attempt leaves an error number and the session cleaned up.
LEMMA FailAttemptFacts ==
  ASSUME NEW d \in DataType, NEW e \in Errors, FailAttempt(d, e)
  PROVE  /\ data' \in DataType /\ data'.state = d.state /\ data'.mechs = d.mechs
         /\ data'.comp = "none" /\ data'.auth = 0
         /\ lastErr' \in Errors /\ lastErr' # "none"
         /\ pc' = "address"
<1> DEFINE error == IF e # "none" THEN e
                    ELSE IF d.error # "none" THEN d.error ELSE "oom"
<1>1. error \in Errors /\ error # "none"
  BY DEF DataType, Errors
<1>2. /\ data' = Cleanup([d EXCEPT !.error = error])
      /\ lastErr' = error /\ pc' = "address"
  BY DEF FailAttempt
<1> HIDE DEF error
<1>3. /\ [d EXCEPT !.error = error] \in DataType
      /\ [d EXCEPT !.error = error].state = d.state
      /\ [d EXCEPT !.error = error].mechs = d.mechs
  BY <1>1 DEF DataType
<1> QED BY <1>1, <1>2, <1>3, CleanupType

-----------------------------------------------------------------------------
(***************************************************************************)
(* Every step keeps the invariant: first the two ends of many actions.     *)
(***************************************************************************)
\* The types follow from those of the records and of what is beside them.
LEMMA TypesFollow ==
  ASSUME Types, opt' = opt, idx' \in 0..Len(opt.uri), data' \in DataType,
         link' \in LinkType, data'.auth \in 0..Len(opt.uri), lastErr' \in Errors,
         pc' \in {"address", "connect", "attributes", "capabilities", "compression",
                  "negotiate", "tls", "gather", "auth", "reauth", "leaving", "user",
                  "done", "crashed"},
         caps' \in ServerCaps \cup {NoCaps}, todo' \in Seq(Algorithms \cup Mechanisms),
         outcome' \in {"none", "session", "exception", "null"}
  PROVE  Types'
<1>1. opt' \in Options
  BY DEF Types, TypeOK
<1>2. /\ data'.state \in States /\ data'.close_reason \in CloseReasons
      /\ data'.comp \in Algorithms \cup {"none"} /\ data'.error \in Errors
      /\ data'.mechs \in Seq(Mechanisms) /\ data'.keep \in {"unknown", "yes", "no"}
  BY DEF DataType
<1>3. data'.callback \in BOOLEAN /\ data'.ps \in BOOLEAN
  BY DEF DataType
<1>4. link'.comp \in Algorithms \cup {"none"}
  BY DEF LinkType
<1> QED BY <1>1, <1>2, <1>3, <1>4 DEF Types, TypeOK, States

\* An attempt fails: the next address follows.
LEMMA FailureKeeps ==
  ASSUME IInv, NEW d \in DataType, NEW e \in Errors, FailAttempt(d, e),
         d.state \in {"ALLOCATED", "CONNECTING", "NON_AUTHENTICATED"},
         d.mechs = data.mechs,
         opt' = opt, idx' = idx, sent' = sent, outcome' = outcome,
         caps' \in ServerCaps \cup {NoCaps}, todo' \in Seq(Algorithms \cup Mechanisms),
         link' \in LinkType
  PROVE  IInv'
<1>1. /\ data' \in DataType /\ data'.state = d.state /\ data'.mechs = data.mechs
      /\ data'.comp = "none" /\ data'.auth = 0
      /\ lastErr' \in Errors /\ lastErr' # "none"
      /\ pc' = "address"
  BY FailAttemptFacts
<1>2. Types'
  BY <1>1, TypesFollow, SessionAssumption DEF IInv, Types, TypeOK, OptionType
<1>3. Careful(data.mechs)'
  BY <1>1 DEF IInv, Careful
<1>4. Trying' /\ ClosedAt' /\ Skipped'
  BY <1>1 DEF Trying, ClosedAt, Skipped
<1>5. Shaking' /\ Authenticating' /\ InUse'
  BY <1>1 DEF Shaking, Authenticating, InUse
<1>6. CredentialsProtected' /\ FailureIsClean'
  BY <1>1 DEF IInv, CredentialsProtected, FailureIsClean
<1> QED BY <1>2, <1>3, <1>4, <1>5, <1>6 DEF IInv

\* A session is closed, by whomever.
LEMMA ClosingKeeps ==
  ASSUME IInv, NEW reason \in CloseReasons,
         data' = SendClose(data, reason), link' = NoLink, pc' \in {"user", "done"},
         UNCHANGED <<opt, idx, caps, todo, sent, lastErr, outcome>>
  PROVE  IInv'
<1>1. /\ data' \in DataType /\ data'.state = "CLOSED"
      /\ data'.auth = data.auth /\ data'.mechs = data.mechs
  BY SendCloseType DEF IInv, Types
<1>2. Types'
  BY <1>1, TypesFollow, NoLinkType DEF IInv, Types, TypeOK
<1>3. Careful(data.mechs)'
  BY <1>1 DEF IInv, Careful
<1>4. Trying' /\ Shaking' /\ Authenticating' /\ InUse' /\ ClosedAt' /\ Skipped'
  BY <1>1 DEF Trying, Shaking, Authenticating, InUse, ClosedAt, Skipped
<1>5. CredentialsProtected' /\ FailureIsClean'
  BY <1>1 DEF IInv, CredentialsProtected, FailureIsClean, NoLink
<1> QED BY <1>2, <1>3, <1>4, <1>5 DEF IInv

-----------------------------------------------------------------------------
(***************************************************************************)
(* The actions.                                                            *)
(***************************************************************************)

\* What the types say of the sequences of the options.
LEMMA OptionsType ==
  ASSUME Types
  PROVE  /\ opt.uri \in Seq(AddressKinds) /\ Len(opt.uri) \in Nat
         /\ opt.algs \in Seq(Algorithms) /\ opt.algs \in Seq(Algorithms \cup Mechanisms)
         /\ opt.mech \in Mechanisms \cup {"unspecified"}
BY SessionAssumption DEF Types, TypeOK, OptionType

\* The next address: thrown out, skipped, or tried.
LEMMA NextAddressKeeps ==
  ASSUME IInv, NextAddress
  PROVE  IInv'
<1> USE DEF IInv, NextAddress, Throw
<1>1. /\ Len(opt.uri) \in Nat /\ idx \in Nat /\ idx' = idx + 1
      /\ data \in DataType /\ idx' \in 0..Len(opt.uri) /\ idx < Len(opt.uri)
  BY OptionsType DEF Types, TypeOK
<1>2. /\ data' \in DataType /\ data'.mechs = data.mechs /\ data'.state = data.state
      /\ data'.comp = data.comp /\ data'.auth \in 0..Len(opt.uri)
  BY <1>1 DEF Types, TypeOK, DataType
<1>3. Types'
  BY <1>1, <1>2, TypesFollow DEF Types, TypeOK
<1>4. Careful(data.mechs)' /\ Trying'
  BY <1>1, <1>2 DEF Careful, Trying, Types, DataType
<1>5. Shaking' /\ Authenticating' /\ InUse' /\ ClosedAt'
  BY <1>1, <1>2 DEF Shaking, Authenticating, InUse, ClosedAt, Trying
<1>6. Skipped'
  BY <1>1 DEF Skipped
<1>7. CredentialsProtected' /\ FailureIsClean'
  BY <1>1 DEF CredentialsProtected, FailureIsClean
<1> QED BY <1>3, <1>4, <1>5, <1>6, <1>7 DEF IInv

\* A second connect ends in the dereference of the freed credentials.
LEMMA ConnectAgainKeeps ==
  ASSUME IInv, ConnectAgain
  PROVE  IInv'
<1> USE DEF IInv, ConnectAgain
<1> DEFINE c == SendClose(data, "Implicit")
<1>1. c \in DataType /\ c.mechs = data.mechs
  BY SendCloseType DEF Types, CloseReasons
<1> HIDE DEF c
<1>2. [c EXCEPT !.error = "none"] \in DataType /\ [c EXCEPT !.error = "none"].mechs = c.mechs
  BY <1>1 DEF DataType, Errors
<1>3. data' \in DataType /\ data'.mechs = data.mechs /\ data'.auth = 0
  BY <1>1, <1>2, CleanupType DEF c
<1>4. Types'
  BY <1>3, TypesFollow, NoLinkType, OptionsType DEF Types, TypeOK
<1>5. Careful(data.mechs)'
  BY <1>3 DEF Careful
<1>6. Trying' /\ Shaking' /\ Authenticating' /\ InUse' /\ ClosedAt' /\ Skipped'
  BY DEF Trying, Shaking, Authenticating, InUse, ClosedAt, Skipped
<1>7. CredentialsProtected' /\ FailureIsClean'
  BY DEF CredentialsProtected, FailureIsClean
<1> QED BY <1>4, <1>5, <1>6, <1>7 DEF IInv

\* The stream is refused or opened to the address being tried.
LEMMA OpenStreamKeeps ==
  ASSUME IInv, OpenStream
  PROVE  IInv'
<1>a. Len(opt.uri) \in Nat /\ idx \in 0..Len(opt.uri)
  BY OptionsType DEF IInv, Types, TypeOK
<1>b. idx \in Nat
  BY <1>a
<1>c. opt' = opt
  BY DEF OpenStream
<1>d. Careful(data.mechs) /\ data'.mechs = data.mechs => Careful(data.mechs)'
  BY <1>c DEF Careful
<1> USE DEF IInv, OpenStream
<1> DEFINE d == [data EXCEPT !.error = "none"]
<1>1. /\ d \in DataType /\ d.state = "ALLOCATED" /\ d.mechs = data.mechs
      /\ d.comp = data.comp /\ d.auth = data.auth
  BY DEF Types, DataType, Errors
<1> HIDE DEF d
<1>2. CASE FailAttempt(d, "refused") /\ UNCHANGED link
  BY <1>1, <1>2, FailureKeeps DEF Types, TypeOK, Errors
<1>3. CASE /\ \E keep \in BOOLEAN :
                link' = [NoLink EXCEPT !.up = TRUE, !.keep = keep, !.host = idx]
           /\ data' = [d EXCEPT !.state = "CONNECTING"]
           /\ pc' = "attributes" /\ UNCHANGED lastErr
  <2>1. link' \in LinkType /\ link'.host = idx /\ link'.comp = "none"
    BY <1>b, <1>3 DEF NoLink, LinkType
  <2>2. /\ data' \in DataType /\ data'.state = "CONNECTING" /\ data'.mechs = data.mechs
        /\ data'.comp = data.comp /\ data'.auth = data.auth
    BY <1>1, <1>3 DEF DataType, States
  <2>3. Types'
    BY <1>3, <2>1, <2>2, TypesFollow DEF Types, TypeOK
  <2>4. Careful(data.mechs)'
    BY <1>d, <2>2
  <2>5. Trying' /\ Shaking' /\ Authenticating' /\ InUse' /\ ClosedAt' /\ Skipped'
    BY <1>3, <2>1, <2>2
       DEF Trying, Shaking, OnAddress, Authenticating, InUse, ClosedAt, Skipped
  <2>6. CredentialsProtected' /\ FailureIsClean'
    BY <1>3 DEF CredentialsProtected, FailureIsClean
  <2> QED BY <2>3, <2>4, <2>5, <2>6 DEF IInv
<1> QED BY <1>2, <1>3 DEF d

\* What a step of the handshake leaves alone when it goes on.
LEMMA HandshakeGoesOn ==
  ASSUME IInv, link' \in LinkType, link'.host = link.host, link'.comp = link.comp,
         pc \in {"attributes", "capabilities"},
         pc' \in {"capabilities", "compression"},
         caps' \in ServerCaps \cup {NoCaps},
         UNCHANGED <<opt, idx, data, todo, sent, lastErr, outcome>>
  PROVE  IInv'
<1> USE DEF IInv
<1>1. Types'
  BY TypesFollow DEF Types, TypeOK
<1>2. Careful(data.mechs)' /\ Trying' /\ Authenticating' /\ InUse' /\ ClosedAt' /\ Skipped'
  BY DEF Careful, Trying, Authenticating, InUse, ClosedAt, Skipped
<1>3. Shaking'
  BY DEF Shaking, OnAddress
<1>4. CredentialsProtected' /\ FailureIsClean'
  BY DEF CredentialsProtected, FailureIsClean
<1> QED BY <1>1, <1>2, <1>3, <1>4 DEF IInv

\* The attributes are accepted, or the attempt fails.
LEMMA SendClientAttributesKeeps ==
  ASSUME IInv, SendClientAttributes
  PROVE  IInv'
<1> USE DEF IInv, SendClientAttributes
<1>1. data \in DataType /\ link \in LinkType /\ data.state = "CONNECTING"
  BY DEF Types, Shaking
<1>2. CASE opt.attrs
  <2>1. PICK r \in Answers :
          /\ link' = After(r)
          /\ IF Passes(r) THEN pc' = "capabilities" /\ UNCHANGED <<data, lastErr>>
             ELSE FailAttempt(data, ErrorOf(r))
    BY <1>2
  <2>2. /\ link' \in LinkType /\ link'.host = link.host /\ link'.comp = link.comp
        /\ ErrorOf(r) \in Errors
    BY <1>1, <2>1, AfterType DEF ErrorOf, Errors
  <2>3. CASE Passes(r)
    BY <2>1, <2>2, <2>3, HandshakeGoesOn DEF Types, TypeOK
  <2>4. CASE ~Passes(r)
    BY <1>1, <2>1, <2>2, <2>4, FailureKeeps DEF Types, TypeOK
  <2> QED BY <2>3, <2>4
<1>3. CASE ~opt.attrs
  BY <1>1, <1>3, HandshakeGoesOn DEF Types, TypeOK
<1> QED BY <1>2, <1>3

\* The capabilities arrive, or the attempt fails.
LEMMA InitCapabilitiesKeeps ==
  ASSUME IInv, InitCapabilities
  PROVE  IInv'
<1> USE DEF IInv, InitCapabilities
<1>1. data \in DataType /\ link \in LinkType /\ data.state = "CONNECTING"
  BY DEF Types, Shaking
<1>2. PICK r \in Answers :
        /\ link' = After(r)
        /\ IF Passes(r)
           THEN \E c \in ServerCaps :
                  caps' = c /\ pc' = "compression" /\ UNCHANGED <<data, lastErr>>
           ELSE FailAttempt(data, ErrorOf(r)) /\ UNCHANGED caps
  OBVIOUS
<1>3. /\ link' \in LinkType /\ link'.host = link.host /\ link'.comp = link.comp
      /\ ErrorOf(r) \in Errors
  BY <1>1, <1>2, AfterType DEF ErrorOf, Errors
<1>4. CASE Passes(r)
  BY <1>2, <1>3, <1>4, HandshakeGoesOn
<1>5. CASE ~Passes(r)
  BY <1>1, <1>2, <1>3, <1>5, FailureKeeps DEF Types, TypeOK
<1> QED BY <1>4, <1>5

\* Compression: nothing is negotiated, or the loop starts with the algorithms
\* of the options.
LEMMA SetupCompressionKeeps ==
  ASSUME IInv, SetupCompression
  PROVE  IInv'
<1> USE DEF IInv, SetupCompression, Throw
<1>1. /\ data' \in DataType /\ data'.state = "CONNECTING" /\ data'.mechs = data.mechs
      /\ data'.comp = "none" /\ data'.auth = data.auth
  BY DEF Types, DataType, Shaking
<1>2. todo' \in Seq(Algorithms \cup Mechanisms)
  BY OptionsType DEF Types, TypeOK
<1>3. Types'
  BY <1>1, <1>2, TypesFollow DEF Types, TypeOK
<1>4. Careful(data.mechs)'
  BY <1>1 DEF Careful
<1>5. Shaking'
  BY <1>1 DEF Shaking, OnAddress, Agreed
<1>6. Trying' /\ Authenticating' /\ InUse' /\ ClosedAt' /\ Skipped'
  BY <1>1 DEF Trying, Authenticating, InUse, ClosedAt, Skipped
<1>7. CredentialsProtected' /\ FailureIsClean'
  BY DEF CredentialsProtected, FailureIsClean
<1> QED BY <1>3, <1>4, <1>5, <1>6, <1>7 DEF IInv

\* The rest of a sequence is made of its elements.
LEMMA TailElements ==
  ASSUME NEW S, NEW q \in Seq(S), q # <<>>
  PROVE  /\ Tail(q) \in Seq(S) /\ Head(q) \in S /\ Head(q) = q[1]
         /\ 1 \in 1..Len(q)
         /\ \A i \in 1..Len(Tail(q)) : i + 1 \in 1..Len(q) /\ Tail(q)[i] = q[i + 1]
OBVIOUS

\* An algorithm that one side lacks is left out.
LEMMA SkipAlgorithmKeeps ==
  ASSUME IInv, SkipAlgorithm
  PROVE  IInv'
<1> USE DEF IInv, SkipAlgorithm
<1>1. todo \in Seq(Algorithms \cup Mechanisms) /\ todo # <<>>
  BY DEF Types, TypeOK
<1>2. todo' \in Seq(Algorithms \cup Mechanisms)
  BY <1>1, TailElements
<1>3. Types'
  BY <1>2, TypesFollow DEF Types, TypeOK
<1>4. \A i \in 1..Len(todo') : \E j \in 1..Len(opt.algs) : todo'[i] = opt.algs[j]
  BY <1>1, TailElements DEF Shaking
<1>5. Shaking'
  BY <1>4 DEF Shaking, OnAddress
<1>6. Careful(data.mechs)' /\ Trying' /\ Authenticating' /\ InUse' /\ ClosedAt' /\ Skipped'
  BY DEF Careful, Trying, Authenticating, InUse, ClosedAt, Skipped
<1>7. CredentialsProtected' /\ FailureIsClean'
  BY DEF CredentialsProtected, FailureIsClean
<1> QED BY <1>3, <1>5, <1>6, <1>7 DEF IInv

\* The server takes the algorithm, refuses it, or is gone.
LEMMA NegotiateAlgorithmKeeps ==
  ASSUME IInv, NegotiateAlgorithm
  PROVE  IInv'
<1>0. /\ pc = "negotiate" /\ todo # <<>> /\ AlgorithmSupported(Head(todo))
      /\ opt' = opt /\ idx' = idx /\ caps' = caps /\ sent' = sent /\ lastErr' = lastErr
  BY DEF NegotiateAlgorithm
<1>1. /\ todo \in Seq(Algorithms \cup Mechanisms) /\ data \in DataType /\ link \in LinkType
      /\ opt.algs \in Seq(Algorithms) /\ data.state = "CONNECTING"
  BY <1>0, OptionsType DEF IInv, Types, TypeOK, Shaking
<1>2. PICK j \in 1..Len(opt.algs) : Head(todo) = opt.algs[j]
  BY <1>0, <1>1, TailElements DEF IInv, Shaking
<1>3. Head(todo) \in Algorithms /\ Head(todo) \in Built
  BY <1>0, <1>1, <1>2 DEF AlgorithmSupported
<1>4. CASE /\ link' = [link EXCEPT !.comp = Head(todo)]
           /\ data' = [data EXCEPT !.comp = Head(todo)]
           /\ todo' = <<>> /\ pc' = "tls" /\ UNCHANGED outcome
  <2>1. /\ link' \in LinkType /\ link'.host = link.host /\ link'.comp = Head(todo)
        /\ data' \in DataType /\ data'.comp = Head(todo) /\ data'.auth = data.auth
        /\ data'.state = data.state /\ data'.mechs = data.mechs
    BY <1>1, <1>3, <1>4 DEF LinkType, DataType
  <2>2. Types'
    BY <1>0, <1>4, <2>1, TypesFollow DEF IInv, Types, TypeOK
  <2>3. Careful(data.mechs)'
    BY <1>0, <2>1 DEF IInv, Careful
  <2>4. OnAddress'
    BY <1>0, <2>1 DEF IInv, Shaking, OnAddress
  <2>5. opt.policy # "disabled"
    BY <1>0 DEF IInv, Shaking
  <2>6. Agreed'
    BY <1>0, <1>2, <1>3, <2>1, <2>5 DEF Agreed
  <2>7. Shaking'
    BY <1>1, <1>4, <2>1, <2>4, <2>6 DEF Shaking
  <2>8. Trying' /\ Authenticating' /\ InUse' /\ ClosedAt' /\ Skipped'
    BY <1>1, <1>4, <2>1 DEF Trying, Authenticating, InUse, ClosedAt, Skipped
  <2>9. CredentialsProtected' /\ FailureIsClean'
    BY <1>0, <1>4 DEF IInv, CredentialsProtected, FailureIsClean
  <2> QED BY <2>2, <2>3, <2>7, <2>8, <2>9 DEF IInv
<1>5. CASE Throw /\ UNCHANGED <<link, data, todo>>
  <2>1. Types'
    BY <1>0, <1>5, TypesFollow DEF IInv, Types, TypeOK, Throw
  <2>2. /\ Careful(data.mechs)' /\ Trying' /\ Shaking' /\ Authenticating' /\ InUse'
        /\ ClosedAt' /\ Skipped'
    BY <1>0, <1>1, <1>5 DEF IInv, Careful, Trying, Shaking, Authenticating, InUse,
                            ClosedAt, Skipped, Throw
  <2>3. CredentialsProtected' /\ FailureIsClean'
    BY <1>0, <1>5 DEF IInv, CredentialsProtected, FailureIsClean, Throw
  <2> QED BY <2>1, <2>2, <2>3 DEF IInv
<1>6. CASE link' = After("LOST") /\ todo' = Tail(todo) /\ UNCHANGED <<data, pc, outcome>>
  <2>1. /\ link' \in LinkType /\ link'.host = link.host /\ link'.comp = link.comp
        /\ todo' \in Seq(Algorithms \cup Mechanisms)
    BY <1>0, <1>1, <1>6, AfterType, TailElements
  <2>2. Types'
    BY <1>0, <1>6, <2>1, TypesFollow DEF IInv, Types, TypeOK
  <2>3. \A i \in 1..Len(todo') : \E k \in 1..Len(opt.algs) : todo'[i] = opt.algs[k]
    BY <1>0, <1>1, <1>6, TailElements DEF IInv, Shaking
  <2>4. Shaking'
    BY <1>0, <1>6, <2>1, <2>3 DEF IInv, Shaking, OnAddress
  <2>5. /\ Careful(data.mechs)' /\ Trying' /\ Authenticating' /\ InUse'
        /\ ClosedAt' /\ Skipped'
    BY <1>0, <1>6 DEF IInv, Careful, Trying, Authenticating, InUse, ClosedAt, Skipped
  <2>6. CredentialsProtected' /\ FailureIsClean'
    BY <1>0, <1>6 DEF IInv, CredentialsProtected, FailureIsClean
  <2> QED BY <2>2, <2>4, <2>5, <2>6 DEF IInv
<1> QED BY <1>4, <1>5, <1>6 DEF NegotiateAlgorithm

\* No algorithm is left: an exception, or no compression.
LEMMA NegotiationFailsKeeps ==
  ASSUME IInv, NegotiationFails
  PROVE  IInv'
<1>0. /\ pc = "negotiate" /\ opt' = opt /\ idx' = idx /\ caps' = caps /\ todo' = todo
      /\ link' = link /\ sent' = sent /\ lastErr' = lastErr
  BY DEF NegotiationFails
<1>1. /\ data \in DataType /\ link \in LinkType /\ data.state = "CONNECTING"
      /\ data.comp = "none" /\ link.comp = "none" /\ OnAddress
  BY <1>0 DEF IInv, Types, Shaking
<1>2. CASE Throw /\ UNCHANGED data
  <2>1. Types'
    BY <1>0, <1>2, TypesFollow DEF IInv, Types, TypeOK, Throw
  <2>2. /\ Careful(data.mechs)' /\ Trying' /\ Shaking' /\ Authenticating' /\ InUse'
        /\ ClosedAt' /\ Skipped'
    BY <1>0, <1>1, <1>2 DEF IInv, Careful, Trying, Shaking, Authenticating, InUse,
                            ClosedAt, Skipped, Throw
  <2>3. CredentialsProtected' /\ FailureIsClean'
    BY <1>0, <1>2 DEF IInv, CredentialsProtected, FailureIsClean, Throw
  <2> QED BY <2>1, <2>2, <2>3 DEF IInv
<1>3. CASE /\ opt.policy # "required"
           /\ data' = [data EXCEPT !.comp = "none"] /\ pc' = "tls" /\ UNCHANGED outcome
  <2>1. data' = data
    BY <1>1, <1>3 DEF DataType
  <2>2. Types'
    BY <1>0, <1>3, <2>1, TypesFollow DEF IInv, Types, TypeOK
  <2>3. Agreed' /\ OnAddress'
    BY <1>0, <1>1, <1>3, <2>1 DEF Agreed, OnAddress
  <2>4. Careful(data.mechs)' /\ Trying' /\ Authenticating' /\ InUse' /\ ClosedAt' /\ Skipped'
    BY <1>0, <1>1, <1>3, <2>1
       DEF IInv, Careful, Trying, Authenticating, InUse, ClosedAt, Skipped
  <2>5. Shaking'
    BY <1>1, <1>3, <2>1, <2>3 DEF Shaking
  <2>6. CredentialsProtected' /\ FailureIsClean'
    BY <1>0, <1>3 DEF IInv, CredentialsProtected, FailureIsClean
  <2> QED BY <2>2, <2>3, <2>4, <2>5, <2>6 DEF IInv
<1> QED BY <1>2, <1>3 DEF NegotiationFails

\* The link is as secure as the options ask for.
LEMMA SecuredGoesOn ==
  ASSUME IInv, pc = "tls", data' = [data EXCEPT !.state = "NON_AUTHENTICATED"],
         pc' = "gather", link' \in LinkType, link'.host = link.host,
         link'.comp = link.comp, opt.tls => link'.tls,
         UNCHANGED <<opt, idx, caps, todo, sent, lastErr, outcome>>
  PROVE  IInv'
<1>1. data \in DataType /\ OnAddress /\ Agreed
  BY DEF IInv, Types, Shaking
<1>2. /\ data' \in DataType /\ data'.state = "NON_AUTHENTICATED" /\ data'.auth = data.auth
      /\ data'.comp = data.comp /\ data'.mechs = data.mechs
  BY <1>1 DEF DataType, States
<1>3. Types'
  BY <1>2, TypesFollow DEF IInv, Types, TypeOK
<1>4. OnAddress' /\ Agreed' /\ Secured'
  BY <1>1, <1>2 DEF OnAddress, Agreed, Secured
<1>5. Careful(data.mechs)' /\ Trying' /\ Shaking' /\ InUse' /\ ClosedAt' /\ Skipped'
  BY <1>2 DEF IInv, Careful, Trying, Shaking, InUse, ClosedAt, Skipped
<1>6. Authenticating'
  BY <1>2, <1>4 DEF Authenticating
<1>7. CredentialsProtected' /\ FailureIsClean'
  BY DEF IInv, CredentialsProtected, FailureIsClean
<1> QED BY <1>3, <1>5, <1>6, <1>7 DEF IInv

\* No TLS is asked for, the server has none, or it is set up.
LEMMA InitConnectionKeeps ==
  ASSUME IInv, InitConnection
  PROVE  IInv'
<1>0. /\ pc = "tls" /\ opt' = opt /\ idx' = idx /\ caps' = caps /\ todo' = todo
      /\ sent' = sent /\ outcome' = outcome
  BY DEF InitConnection
<1>1. /\ data \in DataType /\ link \in LinkType /\ data.state = "CONNECTING"
      /\ caps' \in ServerCaps \cup {NoCaps} /\ todo' \in Seq(Algorithms \cup Mechanisms)
  BY <1>0 DEF IInv, Types, TypeOK, Shaking
<1>2. CASE /\ ~opt.tls /\ data' = [data EXCEPT !.state = "NON_AUTHENTICATED"]
           /\ pc' = "gather" /\ UNCHANGED <<link, lastErr>>
  BY <1>0, <1>1, <1>2, SecuredGoesOn
<1>3. CASE FailAttempt(data, "none") /\ UNCHANGED link
  BY <1>0, <1>1, <1>3, FailureKeeps DEF Errors
<1>4. CASE SetupCryptoConnection
  <2>1. PICK r \in Answers, handshake \in BOOLEAN :
          IF Passes(r) /\ handshake
          THEN /\ link' = [link EXCEPT !.tls = TRUE]
               /\ data' = [data EXCEPT !.state = "NON_AUTHENTICATED"]
               /\ pc' = "gather"
               /\ UNCHANGED lastErr
          ELSE /\ link' = After(r)
               /\ FailAttempt(data, IF Passes(r) THEN "ssl" ELSE "tls")
    BY <1>4 DEF SetupCryptoConnection
  <2>2. CASE Passes(r) /\ handshake
    <3>1. /\ link' \in LinkType /\ link'.tls /\ link'.host = link.host
          /\ link'.comp = link.comp
      BY <1>1, <2>1, <2>2 DEF LinkType
    <3> QED BY <1>0, <2>1, <2>2, <3>1, SecuredGoesOn
  <2>3. CASE ~(Passes(r) /\ handshake)
    <3>1. link' \in LinkType
      BY <1>1, <2>1, <2>3, AfterType
    <3>2. PICK e \in Errors : FailAttempt(data, e)
      BY <2>1, <2>3 DEF Errors
    <3> QED BY <1>0, <1>1, <3>1, <3>2, FailureKeeps
  <2> QED BY <2>2, <2>3
<1> QED BY <1>2, <1>3, <1>4 DEF InitConnection

\* What Gather_auth_mechanisms finds never gives away a password.
LEMMA GatheredAreCareful ==
  ASSUME Types
  PROVE  GatheredMechanisms \in Seq(Mechanisms) /\ Careful(GatheredMechanisms)
<1>1. opt.mech \in Mechanisms \cup {"unspecified"}
  BY OptionsType
<1>2. CASE opt.mech # "unspecified"
  BY <1>1, <1>2 DEF GatheredMechanisms, Careful, Mechanisms
<1>3. CASE opt.mech = "unspecified" /\ opt.tls
  BY <1>3 DEF GatheredMechanisms, Careful, Mechanisms
<1>4. CASE opt.mech = "unspecified" /\ ~opt.tls
  <2> DEFINE a == IfSupported("MYSQL41")
             b == IfSupported("SHA256_MEMORY")
  <2>1. GatheredMechanisms = a \o b
    BY <1>4 DEF GatheredMechanisms
  <2>2. a \in Seq({"MYSQL41"}) /\ b \in Seq({"SHA256_MEMORY"})
    <3>1. \A m : <<m>> \in Seq({m}) /\ <<>> \in Seq({m})
      OBVIOUS
    <3> QED BY <3>1 DEF IfSupported
  <2> HIDE DEF a, b
  <2>3. a \o b \in Seq({"MYSQL41", "SHA256_MEMORY"})
    BY <2>2
  <2>4. \A i \in 1..Len(a \o b) : (a \o b)[i] \in {"MYSQL41", "SHA256_MEMORY"}
    BY <2>3
  <2>5. \A i \in 1..Len(a \o b) : (a \o b)[i] # "PLAIN"
    BY <2>4
  <2>6. a \o b \in Seq(Mechanisms)
    BY <2>3 DEF Mechanisms
  <2> QED BY <2>1, <2>5, <2>6 DEF Careful
<1> QED BY <1>2, <1>3, <1>4

\* The mechanisms are gathered, or there is none.
LEMMA GatherAuthMechanismsKeeps ==
  ASSUME IInv, GatherAuthMechanisms
  PROVE  IInv'
<1> DEFINE mechs == GatheredMechanisms
<1>0. /\ pc = "gather" /\ opt' = opt /\ idx' = idx /\ caps' = caps /\ link' = link
      /\ sent' = sent /\ outcome' = outcome
  BY DEF GatherAuthMechanisms
<1>1. /\ data \in DataType /\ link \in LinkType /\ data.state = "NON_AUTHENTICATED"
      /\ OnAddress /\ Agreed /\ Secured
      /\ caps' \in ServerCaps \cup {NoCaps} /\ todo \in Seq(Algorithms \cup Mechanisms)
  BY <1>0 DEF IInv, Types, TypeOK, Authenticating
<1>2. mechs \in Seq(Mechanisms) /\ Careful(mechs)
  BY GatheredAreCareful DEF IInv
<1>3. \/ FailAttempt(data, "none") /\ UNCHANGED todo
      \/ /\ mechs # <<>> /\ data' = [data EXCEPT !.mechs = mechs]
         /\ todo' = mechs /\ pc' = "auth" /\ UNCHANGED lastErr
  BY DEF GatherAuthMechanisms
<1> HIDE DEF mechs
<1>4. CASE FailAttempt(data, "none") /\ UNCHANGED todo
  BY <1>0, <1>1, <1>4, FailureKeeps DEF Errors
<1>5. CASE /\ mechs # <<>> /\ data' = [data EXCEPT !.mechs = mechs]
           /\ todo' = mechs /\ pc' = "auth" /\ UNCHANGED lastErr
  <2>1. /\ data' \in DataType /\ data'.mechs = mechs /\ data'.state = data.state
        /\ data'.auth = data.auth /\ data'.comp = data.comp
        /\ todo' \in Seq(Algorithms \cup Mechanisms)
    BY <1>1, <1>2, <1>5 DEF DataType
  <2>2. Types'
    BY <1>0, <1>1, <1>5, <2>1, TypesFollow DEF IInv, Types, TypeOK
  <2>3. Careful(data.mechs)' /\ Careful(todo)'
    BY <1>0, <1>2, <1>5, <2>1 DEF Careful
  <2>4. OnAddress' /\ Agreed' /\ Secured'
    BY <1>0, <1>1, <2>1 DEF OnAddress, Agreed, Secured
  <2>5. Authenticating'
    BY <1>1, <1>5, <2>1, <2>3, <2>4 DEF Authenticating
  <2>6. Trying' /\ Shaking' /\ InUse' /\ ClosedAt' /\ Skipped'
    BY <1>1, <1>5, <2>1 DEF Trying, Shaking, InUse, ClosedAt, Skipped
  <2>7. CredentialsProtected' /\ FailureIsClean'
    BY <1>0, <1>5 DEF IInv, CredentialsProtected, FailureIsClean
  <2> QED BY <2>2, <2>3, <2>5, <2>6, <2>7 DEF IInv
<1> QED BY <1>3, <1>4, <1>5

\* One mechanism is tried: what leaves over the link is protected.
LEMMA TryMechanismKeeps ==
  ASSUME IInv, TryMechanism
  PROVE  IInv'
<1>0. /\ pc \in {"auth", "reauth"} /\ todo # <<>>
      /\ sent' = sent \cup {Credentials(Head(todo))}
      /\ opt' = opt /\ idx' = idx /\ lastErr' = lastErr
  BY DEF TryMechanism
<1>1. /\ data \in DataType /\ link \in LinkType /\ data.state = "NON_AUTHENTICATED"
      /\ OnAddress /\ Agreed /\ Secured /\ data.mechs # <<>>
      /\ Careful(todo) /\ Careful(data.mechs)
      /\ caps \in ServerCaps \cup {NoCaps} /\ todo \in Seq(Algorithms \cup Mechanisms)
  BY <1>0 DEF IInv, Types, TypeOK, Authenticating
<1>2. CredentialsProtected'
  <2>1. Head(todo) = "PLAIN" /\ opt.mech = "unspecified" => opt.tls
    BY <1>0, <1>1, TailElements DEF Careful
  <2> QED BY <1>0, <1>1, <2>1 DEF IInv, CredentialsProtected, Credentials, Secured
<1>3. PICK r \in Answers :
        IF Passes(r)
        THEN /\ link' = [link EXCEPT !.authed = TRUE]
             /\ todo' = <<>>
             /\ IF pc = "auth" THEN Connected(data) /\ UNCHANGED caps
                ELSE pc' = "user" /\ caps' = NoCaps /\ UNCHANGED <<data, outcome>>
        ELSE /\ link' = After(r)
             /\ todo' = Tail(todo)
             /\ data' = IF r = "ERROR" /\ Len(data.mechs) > 1 THEN data
                        ELSE [data EXCEPT !.error = ErrorOf(r)]
             /\ UNCHANGED <<pc, caps, outcome>>
  BY DEF TryMechanism
<1>4. CASE Passes(r)
  <2>1. /\ link' \in LinkType /\ link'.authed /\ link'.host = link.host
        /\ link'.comp = link.comp /\ link'.tls = link.tls
    BY <1>1, <1>3, <1>4 DEF LinkType
  <2>2. /\ data' \in DataType /\ data'.mechs = data.mechs /\ data'.auth = data.auth
        /\ data'.comp = data.comp /\ data'.state \in {"READY", "NON_AUTHENTICATED"}
    <3>1. CASE pc = "auth"
      <4>1. data' = [data EXCEPT !.state = "READY", !.error = "none", !.ps = TRUE]
        BY <1>3, <1>4, <3>1 DEF Connected
      <4> QED BY <1>1, <4>1 DEF DataType, States, Errors
    <3>2. CASE pc # "auth"
      BY <1>1, <1>3, <1>4, <3>2
    <3> QED BY <3>1, <3>2
  <2>3. /\ pc' = "user" /\ outcome' \in {outcome, "session"} /\ todo' = <<>>
        /\ caps' \in ServerCaps \cup {NoCaps}
    BY <1>0, <1>1, <1>3, <1>4 DEF Connected
  <2>4. Types'
    BY <1>0, <2>1, <2>2, <2>3, TypesFollow DEF IInv, Types, TypeOK
  <2>5. OnAddress' /\ Agreed' /\ Secured' /\ Careful(data.mechs)'
    BY <1>0, <1>1, <2>1, <2>2 DEF OnAddress, Agreed, Secured, Careful
  <2>6. InUse'
    BY <1>1, <2>1, <2>2, <2>5 DEF InUse
  <2>7. Trying' /\ Shaking' /\ Authenticating' /\ ClosedAt' /\ Skipped'
    BY <2>3 DEF Trying, Shaking, Authenticating, ClosedAt, Skipped
  <2>8. FailureIsClean'
    BY <1>0, <2>3 DEF IInv, FailureIsClean
  <2> QED BY <1>2, <2>4, <2>5, <2>6, <2>7, <2>8 DEF IInv
<1>5. CASE ~Passes(r)
  <2>1. /\ link' \in LinkType /\ link'.host = link.host
        /\ link'.comp = link.comp /\ link'.tls = link.tls
    BY <1>1, <1>3, <1>5, AfterType
  <2>2. /\ data' \in DataType /\ data'.mechs = data.mechs /\ data'.auth = data.auth
        /\ data'.comp = data.comp /\ data'.state = data.state
    BY <1>1, <1>3, <1>5 DEF DataType, Errors, ErrorOf
  <2>3. todo' = Tail(todo) /\ UNCHANGED <<pc, caps, outcome>>
    BY <1>3, <1>5
  <2>4. /\ todo' \in Seq(Algorithms \cup Mechanisms)
        /\ \A i \in 1..Len(todo') : i + 1 \in 1..Len(todo) /\ todo'[i] = todo[i + 1]
    BY <1>0, <1>1, <2>3, TailElements
  <2>5. Types'
    BY <1>0, <1>1, <2>1, <2>2, <2>3, <2>4, TypesFollow DEF IInv, Types, TypeOK
  <2>6. Careful(todo)'
    BY <1>0, <1>1, <2>4 DEF Careful
  <2>7. OnAddress' /\ Agreed' /\ Secured' /\ Careful(data.mechs)'
    BY <1>0, <1>1, <2>1, <2>2 DEF OnAddress, Agreed, Secured, Careful
  <2>8. Authenticating'
    BY <1>1, <2>2, <2>6, <2>7 DEF Authenticating
  <2>9. Trying' /\ Shaking' /\ InUse' /\ ClosedAt' /\ Skipped'
    BY <1>0, <1>1, <2>2, <2>3 DEF Trying, Shaking, InUse, ClosedAt, Skipped
  <2>10. FailureIsClean'
    BY <1>0, <2>3 DEF IInv, FailureIsClean
  <2> QED BY <1>2, <2>5, <2>7, <2>8, <2>9, <2>10 DEF IInv
<1> QED BY <1>4, <1>5

\* No mechanism is left: the attempt fails, or the session stays with the
\* user as it is.
LEMMA AuthenticationFailsKeeps ==
  ASSUME IInv, AuthenticationFails
  PROVE  IInv'
<1> DEFINE d == IF Len(data.mechs) > 1 THEN [data EXCEPT !.error = "auth"] ELSE data
<1>0. /\ pc \in {"auth", "reauth"}
      /\ opt' = opt /\ idx' = idx /\ todo' = todo /\ link' = link /\ sent' = sent
      /\ outcome' = outcome
  BY DEF AuthenticationFails
<1>1. /\ data \in DataType /\ link \in LinkType /\ data.state = "NON_AUTHENTICATED"
      /\ OnAddress /\ Agreed /\ Secured /\ data.mechs # <<>> /\ Careful(data.mechs)
      /\ caps \in ServerCaps \cup {NoCaps} /\ todo \in Seq(Algorithms \cup Mechanisms)
  BY <1>0 DEF IInv, Types, TypeOK, Authenticating
<1>2. /\ d \in DataType /\ d.mechs = data.mechs /\ d.auth = data.auth
      /\ d.comp = data.comp /\ d.state = data.state
  BY <1>1 DEF DataType, Errors
<1>3. \/ FailAttempt(d, "none") /\ UNCHANGED caps
      \/ data' = d /\ pc' = "user" /\ caps' = NoCaps /\ UNCHANGED lastErr
  BY DEF AuthenticationFails
<1> HIDE DEF d
<1>4. CASE FailAttempt(d, "none") /\ UNCHANGED caps
  BY <1>0, <1>1, <1>2, <1>4, FailureKeeps DEF Errors
<1>5. CASE data' = d /\ pc' = "user" /\ caps' = NoCaps /\ UNCHANGED lastErr
  <2>1. Types'
    BY <1>0, <1>1, <1>2, <1>5, TypesFollow DEF IInv, Types, TypeOK
  <2>2. OnAddress' /\ Agreed' /\ Secured' /\ Careful(data.mechs)'
    BY <1>0, <1>1, <1>2, <1>5 DEF OnAddress, Agreed, Secured, Careful
  <2>3. Trying' /\ Shaking' /\ Authenticating' /\ InUse' /\ ClosedAt' /\ Skipped'
    BY <1>1, <1>2, <1>5, <2>2
       DEF Trying, Shaking, Authenticating, InUse, ClosedAt, Skipped
  <2>4. CredentialsProtected' /\ FailureIsClean'
    BY <1>0, <1>5 DEF IInv, CredentialsProtected, FailureIsClean
  <2> QED BY <2>1, <2>2, <2>3, <2>4 DEF IInv
<1> QED BY <1>3, <1>4, <1>5

\* The addresses are used up: without an exception only if none was tried.
LEMMA GiveUpKeeps ==
  ASSUME IInv, GiveUp
  PROVE  IInv'
<1>0. /\ pc = "address" /\ idx = Len(opt.uri) /\ pc' = "leaving"
      /\ outcome' = IF Len(opt.uri) > 1 \/ lastErr # "none" THEN "exception" ELSE "null"
      /\ UNCHANGED <<opt, idx, data, caps, todo, link, sent, lastErr>>
  BY DEF GiveUp
<1>1. Types'
  BY <1>0, TypesFollow DEF IInv, Types, TypeOK
<1>2. Careful(data.mechs)' /\ ClosedAt'
  BY <1>0 DEF IInv, Careful, ClosedAt, Trying
<1>3. Trying' /\ Shaking' /\ Authenticating' /\ InUse' /\ Skipped'
  BY <1>0 DEF Trying, Shaking, Authenticating, InUse, Skipped
<1>4. CredentialsProtected'
  BY <1>0 DEF IInv, CredentialsProtected
<1>5. FailureIsClean'
  BY <1>0 DEF IInv, Skipped, FailureIsClean
<1> QED BY <1>1, <1>2, <1>3, <1>4, <1>5 DEF IInv

\* A notice of the server closes the session, or meets no callback.
LEMMA ServerNoticeKeeps ==
  ASSUME IInv, ServerNotice
  PROVE  IInv'
<1>0. /\ pc = "user" /\ UNCHANGED <<opt, idx, caps, todo, sent, lastErr, outcome>>
  BY DEF ServerNotice
<1>1. CASE \E reason \in ErrorReasons : data' = SendClose(data, reason) /\ link' = NoLink
                                        /\ UNCHANGED pc
  BY <1>0, <1>1, ClosingKeeps DEF ErrorReasons, CloseReasons
<1>2. CASE pc' = "crashed" /\ UNCHANGED <<data, link>>
  <2>1. Types'
    BY <1>0, <1>2, TypesFollow DEF IInv, Types, TypeOK
  <2>2. /\ Careful(data.mechs)' /\ Trying' /\ Shaking' /\ Authenticating' /\ InUse'
        /\ ClosedAt' /\ Skipped'
    BY <1>0, <1>2 DEF IInv, Careful, Trying, Shaking, Authenticating, InUse, ClosedAt, Skipped
  <2>3. CredentialsProtected' /\ FailureIsClean'
    BY <1>0, <1>2 DEF IInv, CredentialsProtected, FailureIsClean
  <2> QED BY <2>1, <2>2, <2>3 DEF IInv
<1> QED BY <1>1, <1>2 DEF ServerNotice

\* In the user's hands: what the session and the link are tells the rest.
LEMMA UserKeeps ==
  ASSUME IInv, pc = "user", pc' = "user", todo' = todo,
         data' \in DataType, data'.state = data.state, data'.auth = data.auth,
         data'.comp = data.comp, data'.mechs = data.mechs,
         link' \in LinkType, link'.tls = link.tls, link'.comp = link.comp,
         link'.host = link.host, link'.authed = link.authed,
         UNCHANGED <<opt, idx, caps, sent, lastErr, outcome>>
  PROVE  IInv'
<1>1. Types'
  BY TypesFollow DEF IInv, Types, TypeOK
<1>2. Careful(data.mechs)'
  BY DEF IInv, Careful
<1>3. InUse'
  BY DEF IInv, InUse, OnAddress, Agreed, Secured
<1>4. Trying' /\ Shaking' /\ Authenticating' /\ ClosedAt' /\ Skipped'
  BY DEF Trying, Shaking, Authenticating, ClosedAt, Skipped
<1>5. CredentialsProtected' /\ FailureIsClean'
  BY DEF IInv, CredentialsProtected, FailureIsClean
<1> QED BY <1>1, <1>2, <1>3, <1>4, <1>5 DEF IInv

\* The connection breaks.
LEMMA LinkLostKeeps ==
  ASSUME IInv, LinkLost
  PROVE  IInv'
<1>1. data \in DataType /\ link \in LinkType
  BY DEF IInv, Types
<1>2. /\ pc = "user" /\ link' = After("LOST")
      /\ UNCHANGED <<opt, pc, idx, data, caps, todo, sent, lastErr, outcome>>
  BY DEF LinkLost
<1> QED BY <1>1, <1>2, AfterType, UserKeeps

\* A reset: refused, done, or followed by a re-authentication with the stored
\* mechanisms over the same link.
LEMMA ResetKeeps ==
  ASSUME IInv, Reset
  PROVE  IInv'
<1> DEFINE d == Probed(data)
<1>0. pc = "user" /\ UNCHANGED <<opt, idx, caps, sent, lastErr, outcome>>
  BY DEF Reset
<1>1. /\ data \in DataType /\ link \in LinkType /\ Careful(data.mechs)
      /\ data.mechs \in Seq(Mechanisms)
  BY DEF IInv, Types, TypeOK
<1>2. /\ d \in DataType /\ d.state = data.state /\ d.auth = data.auth
      /\ d.comp = data.comp /\ d.mechs = data.mechs
  BY <1>1, ProbedType
<1>3. \/ /\ data' = d /\ UNCHANGED <<pc, todo>>
         /\ link' = link \/ \E r \in Answers : link' = After(r)
      \/ /\ data.state # "CLOSED"
         /\ data' = [d EXCEPT !.state = "NON_AUTHENTICATED"]
         /\ link' = [link EXCEPT !.authed = FALSE]
         /\ todo' = data.mechs /\ pc' = "reauth"
  BY DEF Reset
<1> HIDE DEF d
<1>4. CASE /\ data' = d /\ UNCHANGED <<pc, todo>>
           /\ link' = link \/ \E r \in Answers : link' = After(r)
  <2>1. /\ link' \in LinkType /\ link'.tls = link.tls /\ link'.comp = link.comp
        /\ link'.host = link.host /\ link'.authed = link.authed
    BY <1>1, <1>4, AfterType
  <2> QED BY <1>0, <1>2, <1>4, <2>1, UserKeeps
<1>5. CASE /\ data.state # "CLOSED"
           /\ data' = [d EXCEPT !.state = "NON_AUTHENTICATED"]
           /\ link' = [link EXCEPT !.authed = FALSE]
           /\ todo' = data.mechs /\ pc' = "reauth"
  <2>1. OnAddress /\ Agreed /\ Secured /\ data.mechs # <<>>
    BY <1>0, <1>5 DEF IInv, InUse
  <2>2. /\ link' \in LinkType /\ link'.tls = link.tls /\ link'.comp = link.comp
        /\ link'.host = link.host
    BY <1>1, <1>5 DEF LinkType
  <2>3. /\ data' \in DataType /\ data'.state = "NON_AUTHENTICATED"
        /\ data'.auth = data.auth /\ data'.comp = data.comp /\ data'.mechs = data.mechs
        /\ todo' \in Seq(Algorithms \cup Mechanisms)
    BY <1>1, <1>2, <1>5 DEF DataType, States
  <2>4. Types'
    BY <1>0, <1>5, <2>2, <2>3, TypesFollow DEF IInv, Types, TypeOK
  <2>5. OnAddress' /\ Agreed' /\ Secured' /\ Careful(data.mechs)' /\ Careful(todo)'
    BY <1>0, <1>1, <1>5, <2>1, <2>2, <2>3 DEF OnAddress, Agreed, Secured, Careful
  <2>6. Authenticating'
    BY <1>5, <2>1, <2>3, <2>5 DEF Authenticating
  <2>7. Trying' /\ Shaking' /\ InUse' /\ ClosedAt' /\ Skipped'
    BY <1>5, <2>3 DEF Trying, Shaking, InUse, ClosedAt, Skipped
  <2>8. CredentialsProtected' /\ FailureIsClean'
    BY <1>0, <1>5 DEF IInv, CredentialsProtected, FailureIsClean
  <2> QED BY <2>4, <2>5, <2>6, <2>7, <2>8 DEF IInv
<1> QED BY <1>3, <1>4, <1>5

-----------------------------------------------------------------------------
(***************************************************************************)
(* The theorems.                                                           *)
(***************************************************************************)

\* A new session, before the first address.
LEMMA InitHolds ==
  ASSUME Init
  PROVE  IInv
<1> USE DEF Init
<1>1. data \in DataType /\ data.state = "ALLOCATED" /\ data.comp = "none" /\ data.mechs = <<>>
      /\ data.auth = 0
  BY DEF NewData, DataType, States, CloseReasons, Errors
<1>2. link \in LinkType
  BY NoLinkType
<1>3. opt.uri \in Seq(AddressKinds) /\ Len(opt.uri) \in Nat
  BY SessionAssumption DEF OptionType
<1>4. TypeOK
  BY <1>1, <1>2, <1>3 DEF TypeOK, NewData, CloseReasons, Errors, NoLink
<1>5. Careful(data.mechs)
  BY <1>1 DEF Careful
<1>6. Trying /\ Shaking /\ Authenticating /\ InUse /\ ClosedAt
  BY <1>1 DEF Trying, Shaking, Authenticating, InUse, ClosedAt
<1>7. Skipped /\ CredentialsProtected /\ FailureIsClean
  BY DEF Skipped, CredentialsProtected, FailureIsClean
<1> QED BY <1>1, <1>2, <1>4, <1>5, <1>6, <1>7 DEF IInv, Types

\* Nothing changes.
LEMMA StutterKeeps ==
  ASSUME IInv, UNCHANGED vars
  PROVE  IInv'
<1> USE DEF vars
<1>1. Types'
  BY DEF IInv, Types, TypeOK
<1>2. Careful(data.mechs)'
  BY DEF IInv, Careful
<1>3. Trying' /\ ClosedAt' /\ Skipped'
  BY DEF IInv, Trying, ClosedAt, Skipped
<1>4. Shaking'
  BY DEF IInv, Shaking, OnAddress, Agreed
<1>5. Authenticating' /\ InUse'
  BY DEF IInv, Authenticating, InUse, OnAddress, Agreed, Secured, Careful
<1>6. CredentialsProtected' /\ FailureIsClean'
  BY DEF IInv, CredentialsProtected, FailureIsClean
<1> QED BY <1>1, <1>2, <1>3, <1>4, <1>5, <1>6 DEF IInv

\* Every step of the connect keeps the invariant.
LEMMA ConnectStepKeeps ==
  ASSUME IInv, ConnectStep
  PROVE  IInv'
<1>1. CASE FreeFailed
  BY <1>1, ClosingKeeps DEF FreeFailed, CloseReasons
<1> QED
  BY <1>1, NextAddressKeeps, ConnectAgainKeeps, OpenStreamKeeps, SendClientAttributesKeeps,
     InitCapabilitiesKeeps, SetupCompressionKeeps, SkipAlgorithmKeeps,
     NegotiateAlgorithmKeeps, NegotiationFailsKeeps, InitConnectionKeeps,
     GatherAuthMechanismsKeeps, TryMechanismKeeps, AuthenticationFailsKeeps, GiveUpKeeps
  DEF ConnectStep

\* The invariant holds in every reachable state.
LEMMA InvariantHolds == Spec => []IInv
<1>1. Init => IInv
  BY InitHolds
<1>2. IInv /\ [Next]_vars => IInv'
  <2> SUFFICES ASSUME IInv, [Next]_vars
               PROVE  IInv'
    OBVIOUS
  <2>1. CASE ConnectStep
    BY <2>1, ConnectStepKeeps
  <2>2. CASE Close \/ Free
    BY <2>2, ClosingKeeps DEF Close, Free, CloseReasons
  <2>3. CASE ServerNotice \/ LinkLost \/ Reset
    BY <2>3, ServerNoticeKeeps, LinkLostKeeps, ResetKeeps
  <2>4. CASE UNCHANGED vars
    BY <2>4, StutterKeeps
  <2> QED BY <2>1, <2>2, <2>3, <2>4 DEF Next
<1> QED BY <1>1, <1>2, PTL DEF Spec

\* The variables have their types: only mechanisms the driver knows are ever
\* stored for a re-authentication, only algorithms of the options or none are
\* in use.
THEOREM TypeCorrect == Spec => []TypeOK
<1>1. IInv => TypeOK
  BY DEF IInv, Types
<1> QED BY <1>1, InvariantHolds, PTL

\* No authentication starts over a link weaker than the URI asked for, with
\* any number of addresses, mechanisms, failed attempts and resets.
THEOREM CredentialsAreProtected == Spec => []CredentialsProtected
<1>1. IInv => CredentialsProtected
  BY DEF IInv
<1> QED BY <1>1, InvariantHolds, PTL

\* A READY session was authenticated by the server at the address it is
\* connected to.
THEOREM ReadySessionsAreAuthenticated == Spec => []ReadyIsAuthenticated
<1>1. IInv => ReadyIsAuthenticated
  BY DEF IInv, InUse, OnAddress, Secured, ReadyIsAuthenticated
<1> QED BY <1>1, InvariantHolds, PTL

\* Both ends of an open session use the same compression, as the options say.
THEOREM BothEndsCompressAlike == Spec => []CompressionAgrees
<1>1. IInv => CompressionAgrees
  BY DEF IInv, InUse, Agreed, CompressionAgrees
<1> QED BY <1>1, InvariantHolds, PTL

\* A failed connect leaves nothing open, and is silent only if no address was
\* tried.
THEOREM FailuresAreClean == Spec => []FailureIsClean
<1>1. IInv => FailureIsClean
  BY DEF IInv
<1> QED BY <1>1, InvariantHolds, PTL

\* A closed session stays closed, with the reason of the first close: no step
\* of a connect meets a closed session, and send_close and reset leave one as
\* it is.
THEOREM ClosedSessionsStayClosed == Spec => ClosedForGood
<1> DEFINE Keeps == data'.state = "CLOSED" /\ data'.close_reason = data.close_reason
<1>1. ASSUME IInv, data.state = "CLOSED", [Next]_vars
      PROVE  Keeps
  <2>1. data \in DataType /\ pc \in {"user", "done", "crashed"}
    BY <1>1 DEF IInv, Types, ClosedAt
  <2>2. CASE ConnectStep
    BY <2>1, <2>2
    DEF ConnectStep, NextAddress, ConnectAgain, OpenStream, SendClientAttributes,
        InitCapabilities, SetupCompression, SkipAlgorithm, NegotiateAlgorithm,
        NegotiationFails, InitConnection, GatherAuthMechanisms, TryMechanism,
        AuthenticationFails, GiveUp, FreeFailed
  <2>3. CASE Close \/ Free
    <3>1. data' = SendClose(data, "Explicit")
      BY <2>3 DEF Close, Free
    <3> QED BY <1>1, <3>1 DEF SendClose
  <2>4. CASE ServerNotice
    BY <1>1, <2>4 DEF ServerNotice
  <2>5. CASE LinkLost \/ UNCHANGED vars
    BY <1>1, <2>5 DEF LinkLost, vars
  <2>6. CASE Reset
    <3>1. data' = Probed(data)
      BY <1>1, <2>6 DEF Reset
    <3> QED BY <1>1, <2>1, <3>1, ProbedType
  <2> QED BY <1>1, <2>2, <2>3, <2>4, <2>5, <2>6 DEF Next
<1>2. IInv /\ [Next]_vars => [data.state = "CLOSED" => Keeps]_vars
  BY <1>1
<1> QED BY <1>2, InvariantHolds, PTL DEF Spec, ClosedForGood
=============================================================================
