------------------------- MODULE TransactionProofs --------------------------
(***************************************************************************)
(* Proofs about Transaction, for any methods and any number of rules: the  *)
(* type invariant, that the first matching rule governs, that an ordinary  *)
(* GET is resumed once a hook, that its body is in the coding its headers  *)
(* name and, where no coding is listed with q=0, in one its client can     *)
(* decode.                                                                 *)
(***************************************************************************)
EXTENDS Transaction, TLAPS

-----------------------------------------------------------------------------
(* The inductive invariant, in the parts the theorems need. *)

(* When the hooks run, and how often each can have been resumed by then.   *)
HookInv ==
  /\ ats = "request" => hook = "idle" /\ resumes = 0 /\ setup = 0
  /\ ats \in {"readHook", "respond", "done"} => hook = "idle"
  /\ hook = "entry" => resumes = 0
  /\ hook # "idle" => resumes <= 1
  /\ Ordinary => resumes <= 1
  /\ Ordinary /\ hook # "idle" => resumes = 0 /\ ats = "sendHook"

IsEnabling(r) == r \in RuleIds /\ IsFirstMatch(r) /\ ~rules[r].disabled

Chosen == hook = "resume" \/ (hook = "idle" /\ ats # "request")

(* How far the rule has come: once handleSendRequestHeaders has chosen, the *)
(* setup plugin is added exactly for an enabling rule; and what the origin *)
(* is asked differs from what the client asked only for such a rule.       *)
RuleInv ==
  /\ hook \in {"rewrite", "add"} => IsEnabling(rule)
  /\ hook \in {"entry", "match", "rewrite", "add"} => setup = 0
  /\ Chosen => IF setup = 0 THEN IsFirstMatch(rule) /\ ~IsEnabling(rule)
               ELSE setup = rule /\ IsEnabling(rule)
  /\ serverAccepts # clientAccepts =>
       IsEnabling(rule) /\ (hook = "add" \/ Chosen)
  /\ ats \notin {"request", "sendHook"} /\ asked # clientAccepts =>
       IsEnabling(rule) /\ (hook = "add" \/ Chosen)

Rewritten == IF ClientAcceptsGzip THEN GzipOnly ELSE NoHeader

(* What the origin is asked, and answers, in an ordinary GET. *)
CodingInv ==
  /\ hook = "add" \/ setup # 0 => serverAccepts = Rewritten
  /\ Ordinary =>
       /\ ats \notin {"request", "sendHook"} => asked = serverAccepts
       /\ ats \in {"readHook", "respond", "done"} => encoding \in Acceptable(asked)

(* The transformations fit the response, once they are added. *)
ChainFits ==
  chain = IF setup # 0 /\ html THEN Transformations ELSE << >>

ChainInv ==
  /\ ats \in {"request", "sendHook", "sent"} => chain = << >>
  /\ ats = "readHook" =>
       setup # 0 /\ IF resumes = 0 THEN chain = << >> ELSE ChainFits
  /\ ats \in {"respond", "done"} => ChainFits

(* Inside the transformations of an ordinary GET the body is plain HTML;   *)
(* at both ends it is what Content-Encoding says.                          *)
BodyInv ==
  /\ ats \notin {"respond", "done"} => passed = 0
  /\ ats = "readHook" => body = encoding
  /\ ats = "done" => passed = Len(chain)
  /\ ats \in {"respond", "done"} /\ Ordinary =>
       body = IF passed \in {1, 2} THEN "identity" ELSE encoding

IInv == TypeOK /\ HookInv /\ RuleInv /\ CodingInv /\ ChainInv /\ BodyInv

-----------------------------------------------------------------------------
(* The constants of the model, as the types need them. *)

LEMMA HeaderTypes ==
  /\ NoHeader \in Headers /\ GzipOnly \in Headers /\ Rewritten \in Headers
  /\ RuleIds \subseteq 0 .. NumRules
  BY TransactionAssumption
  DEF NoHeader, GzipOnly, Rewritten, Headers, Codings, RuleIds

(* std::find_if finds one rule at most. *)
LEMMA FirstMatchUnique ==
  ASSUME NEW r \in 0 .. NumRules, NEW s \in 0 .. NumRules,
         IsFirstMatch(r), IsFirstMatch(s)
  PROVE  r = s
  BY TransactionAssumption DEF IsFirstMatch, RuleIds

LEMMA InitIInv == Init => IInv
<1> SUFFICES ASSUME Init PROVE IInv
  OBVIOUS
<1> USE DEF Init
<1>1. TypeOK
  <2>1. /\ rule \in 0 .. NumRules /\ setup \in 0 .. NumRules
        /\ resumes \in 0 .. 2 /\ passed \in 0 .. Len(chain)
    BY TransactionAssumption
  <2>2. {clientAccepts, serverAccepts, asked} \subseteq Headers
    BY HeaderTypes
  <2> QED
    BY <2>1, <2>2, Zenon DEF TypeOK
<1>2. HookInv /\ RuleInv /\ CodingInv
  BY DEF HookInv, RuleInv, CodingInv, Chosen
<1>3. ChainInv /\ BodyInv
  BY DEF ChainInv, BodyInv
<1> QED
  BY <1>1, <1>2, <1>3 DEF IInv

-----------------------------------------------------------------------------
(* Each part of the invariant is preserved, given all of it. *)

LEMMA NextType == IInv /\ [Next]_vars => TypeOK'
<1> SUFFICES ASSUME IInv, [Next]_vars PROVE TypeOK'
  OBVIOUS
<1>0. TypeOK /\ HookInv /\ ChainInv
  BY DEF IInv
<1> USE <1>0, HeaderTypes, TransactionAssumption
    DEF TypeOK, inputs, handlerVars, responseVars
<1>1. CASE CallSendRequestHook
  BY <1>1 DEF CallSendRequestHook
<1>2. CASE LetOthersGo
  BY <1>2 DEF LetOthersGo, HookInv
<1>3. CASE MatchRule
  BY <1>3 DEF MatchRule, GovernedBy
<1>4. CASE RewriteAcceptEncoding
  BY <1>4 DEF RewriteAcceptEncoding, AskFor
<1>5. CASE AddSetupPlugin
  BY <1>5 DEF AddSetupPlugin
<1>6. CASE ResumeSendRequest
  BY <1>6 DEF ResumeSendRequest, HookInv
<1>7. CASE SendRequest
  BY <1>7 DEF SendRequest
<1>8. ASSUME NEW b \in BOOLEAN, NEW e \in Codings \cup {"identity"},
             ReadResponse(b, e)
      PROVE  TypeOK'
  BY <1>8 DEF ReadResponse
<1>9. CASE HandleReadResponseHeaders
  <2>1. chain' \in {<< >>, <<"pagespeed">>, <<"inflate", "pagespeed", "deflate">>}
    BY <1>9 DEF HandleReadResponseHeaders, AddAndResume, Transformations
  <2>2. passed = 0 /\ 0 <= Len(chain')
    BY <1>9, <2>1 DEF HandleReadResponseHeaders, AddAndResume, ChainInv
  <2> QED
    BY <1>9, <2>1, <2>2 DEF HandleReadResponseHeaders, AddAndResume
<1>10. CASE ResumeReadResponse
  BY <1>10 DEF ResumeReadResponse
<1>11. CASE PassThrough
  <2>1. body' \in Codings \cup {"identity", "garbage"}
    BY <1>11 DEF PassThrough, Transformed, Codings
  <2>2. passed' \in 0 .. Len(chain')
    BY <1>11 DEF PassThrough
  <2> QED
    BY <1>11, <2>1, <2>2 DEF PassThrough
<1>12. CASE Respond
  BY <1>12 DEF Respond
<1>13. CASE UNCHANGED vars
  BY <1>13 DEF vars
<1> QED
  BY <1>1, <1>2, <1>3, <1>4, <1>5, <1>6, <1>7, <1>8, <1>9, <1>10, <1>11,
     <1>12, <1>13 DEF Next, HandlerStep, AtsStep, Finished

LEMMA NextHook == IInv /\ [Next]_vars => HookInv'
<1> SUFFICES ASSUME IInv, [Next]_vars PROVE HookInv'
  OBVIOUS
<1>0. TypeOK /\ HookInv
  BY DEF IInv
<1> USE <1>0 DEF TypeOK, HookInv, Ordinary, inputs, handlerVars, responseVars
<1>1. CASE CallSendRequestHook \/ LetOthersGo
  BY <1>1 DEF CallSendRequestHook, LetOthersGo
<1>2. CASE MatchRule
  BY <1>2 DEF MatchRule, GovernedBy
<1>3. CASE RewriteAcceptEncoding \/ AddSetupPlugin
  BY <1>3 DEF RewriteAcceptEncoding, AskFor, AddSetupPlugin
<1>4. CASE ResumeSendRequest
  BY <1>4 DEF ResumeSendRequest
<1>5. CASE SendRequest
  BY <1>5 DEF SendRequest
<1>6. ASSUME NEW b \in BOOLEAN, NEW e \in Codings \cup {"identity"},
             ReadResponse(b, e)
      PROVE  HookInv'
  BY <1>6 DEF ReadResponse
<1>7. CASE HandleReadResponseHeaders
  BY <1>7 DEF HandleReadResponseHeaders, AddAndResume
<1>8. CASE ResumeReadResponse \/ PassThrough \/ Respond
  BY <1>8 DEF ResumeReadResponse, PassThrough, Respond
<1>9. CASE UNCHANGED vars
  BY <1>9 DEF vars
<1> QED
  BY <1>1, <1>2, <1>3, <1>4, <1>5, <1>6, <1>7, <1>8, <1>9
  DEF Next, HandlerStep, AtsStep, Finished

LEMMA NextRule == IInv /\ [Next]_vars => RuleInv'
<1> SUFFICES ASSUME IInv, [Next]_vars PROVE RuleInv'
  OBVIOUS
<1>0. TypeOK /\ HookInv /\ RuleInv
  BY DEF IInv
<1>a. \A r : (IsFirstMatch(r) <=> IsFirstMatch(r)') /\ (IsEnabling(r) <=> IsEnabling(r)')
  BY DEF Next, HandlerStep, AtsStep, Finished, vars, inputs, CallSendRequestHook,
         LetOthersGo, MatchRule, GovernedBy, RewriteAcceptEncoding, AskFor,
         AddSetupPlugin, ResumeSendRequest, SendRequest, ReadResponse,
         HandleReadResponseHeaders, AddAndResume, ResumeReadResponse,
         PassThrough, Respond, IsFirstMatch, IsEnabling, Matches
<1> USE <1>0, <1>a DEF RuleInv, Chosen, inputs, handlerVars, responseVars
<1>1. CASE CallSendRequestHook
  BY <1>1 DEF CallSendRequestHook, HookInv
<1>2. CASE LetOthersGo
  BY <1>2 DEF LetOthersGo
<1>3. CASE MatchRule
  <2>1. PICK r \in 0 .. NumRules : IsFirstMatch(r) /\ GovernedBy(r)
    BY <1>3 DEF MatchRule
  <2>2. IsEnabling(r) <=> r # 0 /\ ~rules[r].disabled
    BY <2>1, TransactionAssumption DEF IsEnabling, RuleIds
  <2>3. /\ rule' = r /\ hook' \in {"rewrite", "resume"}
        /\ hook' = "rewrite" <=> IsEnabling(r)
    BY <2>1, <2>2 DEF GovernedBy
  <2>4. setup' = 0 /\ serverAccepts' = clientAccepts'
    BY <2>1 DEF GovernedBy
  <2>5. ats' = ats /\ (ats \notin {"request", "sendHook"} => asked' = clientAccepts')
    BY <2>1 DEF GovernedBy
  <2> QED
    BY <2>1, <2>3, <2>4, <2>5
<1>4. CASE RewriteAcceptEncoding
  BY <1>4 DEF RewriteAcceptEncoding, AskFor
<1>5. CASE AddSetupPlugin
  BY <1>5, TransactionAssumption DEF AddSetupPlugin, IsEnabling, RuleIds
<1>6. CASE ResumeSendRequest
  BY <1>6 DEF ResumeSendRequest, HookInv
<1>7. CASE SendRequest
  BY <1>7 DEF SendRequest
<1>8. ASSUME NEW b \in BOOLEAN, NEW e \in Codings \cup {"identity"},
             ReadResponse(b, e)
      PROVE  RuleInv'
  BY <1>8 DEF ReadResponse
<1>9. CASE HandleReadResponseHeaders
  BY <1>9 DEF HandleReadResponseHeaders, AddAndResume
<1>10. CASE ResumeReadResponse \/ PassThrough \/ Respond
  BY <1>10 DEF ResumeReadResponse, PassThrough, Respond
<1>11. CASE UNCHANGED vars
  BY <1>11 DEF vars
<1> QED
  BY <1>1, <1>2, <1>3, <1>4, <1>5, <1>6, <1>7, <1>8, <1>9, <1>10, <1>11
  DEF Next, HandlerStep, AtsStep, Finished

LEMMA NextCoding == IInv /\ [Next]_vars => CodingInv'
<1> SUFFICES ASSUME IInv, [Next]_vars PROVE CodingInv'
  OBVIOUS
<1>0. TypeOK /\ HookInv /\ RuleInv /\ CodingInv
  BY DEF IInv
<1> USE <1>0 DEF CodingInv, Rewritten, ClientAcceptsGzip, Ordinary, Acceptable,
                 inputs, handlerVars, responseVars
<1>1. CASE CallSendRequestHook \/ LetOthersGo
  BY <1>1 DEF CallSendRequestHook, LetOthersGo, HookInv
<1>2. CASE MatchRule
  BY <1>2 DEF MatchRule, GovernedBy, RuleInv, HookInv
<1>3. CASE RewriteAcceptEncoding
  BY <1>3 DEF RewriteAcceptEncoding, AskFor, HookInv
<1>4. CASE AddSetupPlugin
  BY <1>4 DEF AddSetupPlugin, HookInv
<1>5. CASE ResumeSendRequest
  BY <1>5 DEF ResumeSendRequest, HookInv
<1>6. CASE SendRequest
  BY <1>6 DEF SendRequest, HookInv
<1>7. ASSUME NEW b \in BOOLEAN, NEW e \in Codings \cup {"identity"},
             ReadResponse(b, e)
      PROVE  CodingInv'
  BY <1>7 DEF ReadResponse
<1>8. CASE HandleReadResponseHeaders
  BY <1>8 DEF HandleReadResponseHeaders, AddAndResume
<1>9. CASE ResumeReadResponse \/ PassThrough \/ Respond
  BY <1>9 DEF ResumeReadResponse, PassThrough, Respond
<1>10. CASE UNCHANGED vars
  BY <1>10 DEF vars
<1> QED
  BY <1>1, <1>2, <1>3, <1>4, <1>5, <1>6, <1>7, <1>8, <1>9, <1>10
  DEF Next, HandlerStep, AtsStep, Finished

LEMMA NextChain == IInv /\ [Next]_vars => ChainInv'
<1> SUFFICES ASSUME IInv, [Next]_vars PROVE ChainInv'
  OBVIOUS
<1>0. TypeOK /\ HookInv /\ RuleInv /\ ChainInv
  BY DEF IInv
<1> USE <1>0 DEF ChainInv, ChainFits, Transformations, ServerReturnedGzip,
                 inputs, handlerVars, responseVars
<1>1. CASE CallSendRequestHook \/ LetOthersGo
  BY <1>1 DEF CallSendRequestHook, LetOthersGo, HookInv
<1>2. CASE MatchRule
  BY <1>2 DEF MatchRule, GovernedBy, HookInv
<1>3. CASE RewriteAcceptEncoding \/ AddSetupPlugin
  BY <1>3 DEF RewriteAcceptEncoding, AskFor, AddSetupPlugin, HookInv
<1>4. CASE ResumeSendRequest
  BY <1>4 DEF ResumeSendRequest, HookInv
<1>5. CASE SendRequest
  BY <1>5 DEF SendRequest
<1>6. ASSUME NEW b \in BOOLEAN, NEW e \in Codings \cup {"identity"},
             ReadResponse(b, e)
      PROVE  ChainInv'
  BY <1>6 DEF ReadResponse
<1>7. CASE HandleReadResponseHeaders
  BY <1>7 DEF HandleReadResponseHeaders, AddAndResume
<1>8. CASE ResumeReadResponse
  BY <1>8, SMT DEF ResumeReadResponse, TypeOK
<1>9. CASE PassThrough \/ Respond
  BY <1>9 DEF PassThrough, Respond
<1>10. CASE UNCHANGED vars
  BY <1>10 DEF vars
<1> QED
  BY <1>1, <1>2, <1>3, <1>4, <1>5, <1>6, <1>7, <1>8, <1>9, <1>10
  DEF Next, HandlerStep, AtsStep, Finished

(* An ordinary GET that is rewritten is answered in gzip or identity. *)
LEMMA GzipOrPlain ==
  ASSUME IInv, Ordinary, setup # 0, ats \in {"readHook", "respond", "done"}
  PROVE  encoding \in {"gzip", "identity"}
  BY DEF IInv, CodingInv, Rewritten, Acceptable, GzipOnly, NoHeader

LEMMA NextBody == IInv /\ [Next]_vars => BodyInv'
<1> SUFFICES ASSUME IInv, [Next]_vars PROVE BodyInv'
  OBVIOUS
<1>0. TypeOK /\ HookInv /\ ChainInv /\ BodyInv
  BY DEF IInv
<1> USE <1>0 DEF BodyInv, Ordinary, inputs, handlerVars, responseVars
<1>1. CASE CallSendRequestHook \/ LetOthersGo
  BY <1>1 DEF CallSendRequestHook, LetOthersGo, HookInv
<1>2. CASE MatchRule
  BY <1>2 DEF MatchRule, GovernedBy, HookInv
<1>3. CASE RewriteAcceptEncoding \/ AddSetupPlugin
  BY <1>3 DEF RewriteAcceptEncoding, AskFor, AddSetupPlugin, HookInv
<1>4. CASE ResumeSendRequest
  BY <1>4 DEF ResumeSendRequest, HookInv
<1>5. CASE SendRequest
  BY <1>5 DEF SendRequest
<1>6. ASSUME NEW b \in BOOLEAN, NEW e \in Codings \cup {"identity"},
             ReadResponse(b, e)
      PROVE  BodyInv'
  BY <1>6 DEF ReadResponse
<1>7. CASE HandleReadResponseHeaders
  BY <1>7 DEF HandleReadResponseHeaders, AddAndResume
<1>8. CASE ResumeReadResponse
  BY <1>8 DEF ResumeReadResponse
<1>9. CASE PassThrough
  <2>1. ChainFits /\ passed < Len(chain) /\ passed' = passed + 1
    BY <1>9 DEF PassThrough, ChainInv
  <2>2. setup # 0 /\ chain = Transformations
    <3>1. chain # << >>
      BY <2>1 DEF TypeOK
    <3> QED
      BY <2>1, <3>1 DEF ChainFits
  <2>3. SUFFICES ASSUME Ordinary
                 PROVE  body' = IF passed' \in {1, 2} THEN "identity"
                                ELSE encoding
    BY <1>9 DEF PassThrough
  <2>4. encoding \in {"gzip", "identity"}
    BY <1>9, <2>2, <2>3, GzipOrPlain DEF PassThrough
  <2>5. CASE encoding = "gzip"
    <3>1. chain = <<"inflate", "pagespeed", "deflate">> /\ passed \in 0 .. 2
      BY <2>1, <2>2, <2>5 DEF Transformations, ServerReturnedGzip, TypeOK
    <3> QED
      BY <1>9, <2>1, <2>3, <2>5, <3>1 DEF PassThrough, Transformed
  <2>6. CASE encoding = "identity"
    <3>1. chain = <<"pagespeed">> /\ passed = 0
      BY <2>1, <2>2, <2>6 DEF Transformations, ServerReturnedGzip, TypeOK
    <3> QED
      BY <1>9, <2>1, <2>3, <2>6, <3>1 DEF PassThrough, Transformed
  <2> QED
    BY <2>4, <2>5, <2>6
<1>10. CASE Respond
  BY <1>10 DEF Respond
<1>11. CASE UNCHANGED vars
  BY <1>11 DEF vars
<1> QED
  BY <1>1, <1>2, <1>3, <1>4, <1>5, <1>6, <1>7, <1>8, <1>9, <1>10, <1>11
  DEF Next, HandlerStep, AtsStep, Finished

THEOREM Invariance == Spec => []IInv
<1>1. IInv /\ [Next]_vars => IInv'
  BY NextType, NextHook, NextRule, NextCoding, NextChain, NextBody DEF IInv
<1> QED
  BY InitIInv, <1>1, PTL DEF Spec

-----------------------------------------------------------------------------
(* What follows. *)

(* The variables keep their types; the transformations are one of three    *)
(* chains.                                                                 *)
THEOREM TypeCorrect == Spec => []TypeOK
<1>1. IInv => TypeOK
  BY DEF IInv
<1> QED
  BY Invariance, <1>1, PTL

(* Every hook of an ordinary GET is resumed once. *)
THEOREM OrdinaryResumedOnce == Spec => []ResumedOnce
<1>1. IInv => ResumedOnce
  BY DEF IInv, HookInv, ResumedOnce
<1> QED
  BY Invariance, <1>1, PTL

(* Every request is governed by the first rule that matches it. *)
THEOREM FirstMatchGoverns == Spec => []FirstRuleGoverns
<1>1. IInv => FirstRuleGoverns
  <2> SUFFICES ASSUME IInv, ats = "done" PROVE FirstRuleGoverns
    BY DEF FirstRuleGoverns
  <2> DEFINE Enabling == {i \in RuleIds : /\ Matches(i) /\ ~rules[i].disabled
                                          /\ \A j \in 1 .. i - 1 : ~Matches(j)}
  <2>1. \A i : i \in Enabling <=> IsEnabling(i)
    BY TransactionAssumption DEF IsEnabling, IsFirstMatch, RuleIds
  <2>2. Chosen /\ RuleInv /\ ChainFits
    BY DEF IInv, HookInv, ChainInv, Chosen
  <2>3. CASE setup = 0
    <3>1. IsFirstMatch(rule) /\ ~IsEnabling(rule)
      BY <2>2, <2>3 DEF RuleInv
    <3>2. Enabling = {}
      <4> SUFFICES ASSUME NEW i \in Enabling PROVE FALSE
        OBVIOUS
      <4>1. i \in 0 .. NumRules /\ IsFirstMatch(i) /\ IsEnabling(i)
        BY <2>1, HeaderTypes DEF IsEnabling
      <4>2. rule = i
        BY <3>1, <4>1, FirstMatchUnique DEF IInv, TypeOK
      <4> QED
        BY <3>1, <4>1, <4>2
    <3>3. asked = clientAccepts /\ chain = << >>
      BY <2>2, <2>3, <3>1 DEF RuleInv, ChainFits
    <3> QED
      BY <3>2, <3>3 DEF FirstRuleGoverns
  <2>4. CASE setup # 0
    <3>1. setup \in Enabling
      BY <2>1, <2>2, <2>4 DEF RuleInv
    <3>2. html => chain # << >>
      BY <2>2, <2>4 DEF ChainFits, Transformations
    <3> QED
      BY <3>1, <3>2 DEF FirstRuleGoverns
  <2> QED
    BY <2>3, <2>4
<1> QED
  BY Invariance, <1>1, PTL

LEMMA BodyAtTheEnd == IInv => BodyMatchesHeaders
<1> SUFFICES ASSUME IInv, Ordinary, ats = "done"
             PROVE  body = encoding /\ (chain # << >> => html)
  BY DEF BodyMatchesHeaders
<1>1. /\ ChainFits /\ passed = Len(chain)
      /\ body = IF passed \in {1, 2} THEN "identity" ELSE encoding
  BY DEF IInv, ChainInv, BodyInv
<1>2. CASE chain = << >>
  BY <1>1, <1>2
<1>3. CASE chain # << >>
  <2>1. setup # 0 /\ html /\ chain = Transformations
    BY <1>1, <1>3 DEF ChainFits
  <2>2. encoding \in {"gzip", "identity"}
    BY <2>1, GzipOrPlain
  <2> QED
    BY <1>1, <2>1, <2>2 DEF Transformations, ServerReturnedGzip
<1> QED
  BY <1>2, <1>3

(* An ordinary GET gets a body in the coding that its headers name, and    *)
(* PageSpeed is only ever given HTML.                                      *)
THEOREM BodyIsAsNamed == Spec => []BodyMatchesHeaders
  BY Invariance, BodyAtTheEnd, PTL

(* Where no coding is listed with q=0, an ordinary GET gets a body in a    *)
(* coding that its client accepts.                                         *)
THEOREM DecodableUnlessRefused ==
  ASSUME Refusable = {}
  PROVE  Spec => []ClientCanDecode
<1>1. IInv => ClientCanDecode
  <2> SUFFICES ASSUME IInv, Ordinary, ats = "done"
               PROVE  body \in Acceptable(clientAccepts)
    BY DEF ClientCanDecode
  <2>1. body = encoding /\ encoding \in Acceptable(serverAccepts)
    BY BodyAtTheEnd DEF IInv, CodingInv, BodyMatchesHeaders
  <2>2. clientAccepts.refused = {}
    BY DEF IInv, TypeOK, Headers
  <2>3. CASE serverAccepts = clientAccepts
    BY <2>1, <2>3
  <2>4. CASE serverAccepts # clientAccepts
    <3>1. setup # 0
      BY <2>4 DEF IInv, RuleInv, HookInv, Chosen
    <3>2. serverAccepts = Rewritten
      BY <3>1 DEF IInv, CodingInv
    <3> QED
      BY <2>1, <2>2, <3>2
      DEF Rewritten, ClientAcceptsGzip, GzipOnly, NoHeader, Acceptable
  <2> QED
    BY <2>3, <2>4
<1> QED
  BY Invariance, <1>1, PTL
=============================================================================
