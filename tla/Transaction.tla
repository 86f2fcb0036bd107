---------------------------- MODULE Transaction -----------------------------
(***************************************************************************)
(* One proxied transaction as AtsPagespeedGlobalPlugin and                 *)
(* AtsPagespeedSetupTransactionPlugin see it                               *)
(* (src/src/ats_pagespeed.cpp:185-278): which rule governs the request,    *)
(* what the origin is asked for, and which transformations its response    *)
(* passes through on the way to the client.                                *)
(*                                                                         *)
(* ATS and the origin are not part of this repository.  ATS calls a hook   *)
(* and goes on once resume() was called, possibly inside that call; it     *)
(* calls the hooks of one transaction one at a time.  The origin answers   *)
(* with a coding the request it got lists, or with identity; a request     *)
(* without an Accept-Encoding header is answered with identity.  HTTP lets *)
(* an origin use any coding then; the code (lines 209 and 253-256) relies  *)
(* on one that does not, and what the model shows rests on it as well.     *)
(***************************************************************************)
EXTENDS Naturals, Sequences

CONSTANTS
  Methods,         \* the request methods clients use
  Refusable,       \* the codings a client may list with q=0
  NumRules         \* bound: the length of PagespeedRegexRules

ASSUME TransactionAssumption ==
  /\ "GET" \in Methods
  /\ Refusable \subseteq {"gzip", "deflate"}
  /\ NumRules \in Nat

Codings == {"gzip", "deflate"}

(* An Accept-Encoding header: the codings it lists, those of them with q=0 *)
(* ("gzip;q=0": anything but gzip).  Identity is always acceptable.        *)
Headers == {h \in [listed : SUBSET Codings, refused : SUBSET Refusable] :
              h.refused \subseteq h.listed}
NoHeader == [listed |-> {}, refused |-> {}]
GzipOnly == [listed |-> {"gzip"}, refused |-> {}]
Acceptable(h) == (h.listed \ h.refused) \cup {"identity"}

RuleIds == 1 .. NumRules

VARIABLES
  rules,           \* PagespeedRegexRules; the regex of each compiled
  preMatch,        \* the rules whose regex matches the URL before remapping
  postMatch,       \* the rules whose regex matches it after remapping
  method,          \* the client request's method
  internal,        \* isInternalRequest()
  clientAccepts,   \* the client request's Accept-Encoding
  ats,             \* where the transaction is in ATS
  hook,            \* where handleSendRequestHeaders is
  rule,            \* first_matching_rule, 0 for end()
  serverAccepts,   \* the server request's Accept-Encoding
  setup,           \* the rule of the setup plugin added, 0 if there is none
  resumes,         \* resume() calls since ATS called the last hook
  asked,           \* history: the Accept-Encoding the origin got
  html,            \* the response's content type contains text/html
  encoding,        \* its Content-Encoding
  chain,           \* the transformations added, in order
  passed,          \* how many of them the body went through
  body             \* the coding of the body after those

inputs == <<rules, preMatch, postMatch, method, internal, clientAccepts>>
handlerVars == <<hook, rule, serverAccepts, setup>>
responseVars == <<asked, html, encoding, chain, passed, body>>
vars == <<inputs, ats, handlerVars, resumes, responseVars>>

Init ==
  /\ rules \in [RuleIds -> [method : {"PRE_REMAP", "POST_REMAP"},
                            disabled : BOOLEAN]]
  /\ preMatch \in SUBSET RuleIds
  /\ postMatch \in SUBSET RuleIds
  /\ method \in Methods
  /\ internal \in BOOLEAN
  /\ clientAccepts \in Headers
  /\ ats = "request"
  /\ hook = "idle"
  /\ rule = 0
  /\ serverAccepts = clientAccepts
  /\ setup = 0
  /\ resumes = 0
  /\ asked = NoHeader
  /\ html = FALSE
  /\ encoding = "identity"
  /\ chain = << >>
  /\ passed = 0
  /\ body = "identity"

-----------------------------------------------------------------------------
(* HOOK_SEND_REQUEST_HEADERS *)

CallSendRequestHook ==
  /\ ats = "request"
  /\ ats' = "sendHook"
  /\ hook' = "entry"
  /\ UNCHANGED <<inputs, rule, serverAccepts, setup, resumes, responseVars>>

(* MatchesRegexRule *)
Matches(i) ==
  IF rules[i].method = "PRE_REMAP" THEN i \in preMatch ELSE i \in postMatch

(* std::find_if over the rules, which answers end() when none matches. *)
IsFirstMatch(r) ==
  IF r = 0 THEN \A i \in RuleIds : ~Matches(i)
  ELSE Matches(r) /\ \A i \in 1 .. r - 1 : ~Matches(i)

(* Other methods and internal requests are let go, but the handler goes on. *)
LetOthersGo ==
  /\ hook = "entry"
  /\ hook' = "match"
  /\ resumes' = IF method # "GET" \/ internal THEN resumes + 1 ELSE resumes
  /\ UNCHANGED <<inputs, ats, rule, serverAccepts, setup, responseVars>>

GovernedBy(r) ==
  /\ hook = "match"
  /\ rule' = r
  /\ hook' = IF r # 0 /\ ~rules[r].disabled THEN "rewrite" ELSE "resume"
  /\ UNCHANGED <<inputs, ats, serverAccepts, setup, resumes, responseVars>>

(* Mutant: the first rule that matches and is not disabled. *)
SkipDisabledRules ==
  LET Enabled(i) == Matches(i) /\ ~rules[i].disabled
  IN  \/ \E r \in RuleIds : /\ Enabled(r) /\ \A i \in 1 .. r - 1 : ~Enabled(i)
                            /\ GovernedBy(r)
      \/ (\A i \in RuleIds : ~Enabled(i)) /\ GovernedBy(0)

MatchRule == \E r \in 0 .. NumRules : IsFirstMatch(r) /\ GovernedBy(r)

(* clientAcceptsGzip: "gzip" occurs in the header, whatever follows it. *)
ClientAcceptsGzip == "gzip" \in clientAccepts.listed

AskFor(header) ==
  /\ hook = "rewrite"
  /\ serverAccepts' = header
  /\ hook' = "add"
  /\ UNCHANGED <<inputs, ats, rule, setup, resumes, responseVars>>

(* Mutants: gzip is asked for on every client's behalf; the header of a    *)
(* client without gzip is left alone.                                      *)
AlwaysAskForGzip == AskFor(GzipOnly)
LeaveOtherCodings ==
  AskFor(IF ClientAcceptsGzip THEN GzipOnly ELSE serverAccepts)

RewriteAcceptEncoding ==
  AskFor(IF ClientAcceptsGzip THEN GzipOnly ELSE NoHeader)

AddSetupPlugin ==
  /\ hook = "add"
  /\ setup' = rule
  /\ hook' = "resume"
  /\ UNCHANGED <<inputs, ats, rule, serverAccepts, resumes, responseVars>>

ResumeSendRequest ==
  /\ hook = "resume"
  /\ resumes' = resumes + 1
  /\ hook' = "idle"
  /\ UNCHANGED <<inputs, ats, rule, serverAccepts, setup, responseVars>>

SendRequest ==
  /\ ats = "sendHook"
  /\ resumes > 0
  /\ ats' = "sent"
  /\ asked' = serverAccepts
  /\ UNCHANGED <<inputs, handlerVars, resumes, html, encoding, chain, passed,
                 body>>

-----------------------------------------------------------------------------
(* HOOK_READ_RESPONSE_HEADERS *)

(* The response arrives.  Only the setup plugin listens for this hook. *)
ReadResponse(isHtml, e) ==
  /\ ats = "sent" /\ hook = "idle"
  /\ e \in Acceptable(asked)
  /\ html' = isHtml
  /\ encoding' = e /\ body' = e
  /\ IF setup # 0
     THEN ats' = "readHook" /\ resumes' = 0
     ELSE ats' = "respond" /\ UNCHANGED resumes
  /\ UNCHANGED <<inputs, handlerVars, asked, chain, passed>>

(* serverReturnedGzip *)
ServerReturnedGzip == encoding = "gzip"

Transformations ==
  IF ServerReturnedGzip THEN <<"inflate", "pagespeed", "deflate">>
  ELSE <<"pagespeed">>

(* The handler adds transformations, in this order, and resumes. *)
AddAndResume(steps, calls) ==
  /\ ats = "readHook" /\ resumes = 0
  /\ chain' = steps
  /\ resumes' = resumes + calls
  /\ UNCHANGED <<inputs, ats, handlerVars, asked, html, encoding, passed, body>>

(* Mutants: an inflated response is not deflated again; one that is not    *)
(* HTML is resumed without a return; one that is not HTML is not resumed.  *)
ForgetDeflate ==
  AddAndResume(IF html
               THEN SelectSeq(Transformations, LAMBDA x : x # "deflate")
               ELSE << >>, 1)
ResumeOthersTwice == AddAndResume(Transformations, IF html THEN 1 ELSE 2)
ForgetOthers == html /\ AddAndResume(Transformations, 1)

HandleReadResponseHeaders ==
  AddAndResume(IF html THEN Transformations ELSE << >>, 1)

ResumeReadResponse ==
  /\ ats = "readHook"
  /\ resumes > 0
  /\ ats' = "respond"
  /\ UNCHANGED <<inputs, handlerVars, resumes, responseVars>>

-----------------------------------------------------------------------------
(* The response body *)

(* What each transformation makes of a body.  A transformation that cannot *)
(* read its input produces a body nobody can.                              *)
Transformed(step, e) ==
  CASE step = "inflate"   /\ e = "gzip"     -> "identity"
    [] step = "pagespeed" /\ e = "identity" -> "identity"
    [] step = "deflate"   /\ e = "identity" -> "gzip"
    [] OTHER                                -> "garbage"

PassThrough ==
  /\ ats = "respond"
  /\ passed < Len(chain)
  /\ passed' = passed + 1
  /\ body' = Transformed(chain[passed + 1], body)
  /\ UNCHANGED <<inputs, ats, handlerVars, resumes, asked, html, encoding,
                 chain>>

Respond ==
  /\ ats = "respond"
  /\ passed = Len(chain)
  /\ ats' = "done"
  /\ UNCHANGED <<inputs, handlerVars, resumes, responseVars>>

Finished == ats = "done" /\ UNCHANGED vars

-----------------------------------------------------------------------------
(* The statements of handleSendRequestHeaders. *)
HandlerStep ==
  \/ LetOthersGo \/ MatchRule \/ RewriteAcceptEncoding
  \/ AddSetupPlugin \/ ResumeSendRequest
  \/ HandleReadResponseHeaders

AtsStep ==
  \/ CallSendRequestHook
  \/ SendRequest
  \/ \E isHtml \in BOOLEAN, e \in Codings \cup {"identity"} :
       ReadResponse(isHtml, e)
  \/ ResumeReadResponse
  \/ PassThrough \/ Respond

Next == HandlerStep \/ AtsStep \/ Finished

(* Handlers return, ATS goes on when it is resumed, and the origin answers. *)
Spec == Init /\ [][Next]_vars /\ WF_vars(HandlerStep) /\ WF_vars(AtsStep)

-----------------------------------------------------------------------------
TypeOK ==
  /\ rules \in [RuleIds -> [method : {"PRE_REMAP", "POST_REMAP"},
                            disabled : BOOLEAN]]
  /\ preMatch \subseteq RuleIds /\ postMatch \subseteq RuleIds
  /\ method \in Methods /\ internal \in BOOLEAN
  /\ {clientAccepts, serverAccepts, asked} \subseteq Headers
  /\ ats \in {"request", "sendHook", "sent", "readHook", "respond", "done"}
  /\ hook \in {"idle", "entry", "match", "rewrite", "add", "resume"}
  /\ rule \in 0 .. NumRules /\ setup \in 0 .. NumRules
  /\ resumes \in 0 .. 2
  /\ html \in BOOLEAN
  /\ encoding \in Codings \cup {"identity"}
  /\ chain \in {<< >>, <<"pagespeed">>, <<"inflate", "pagespeed", "deflate">>}
  /\ passed \in 0 .. Len(chain)
  /\ body \in Codings \cup {"identity", "garbage"}

-----------------------------------------------------------------------------
(* Properties.  [GET] are promised for GET requests that are not internal. *)

Ordinary == method = "GET" /\ ~internal

(* The comment at ats_pagespeed.cpp:209: a response that is going to be    *)
(* rewritten is gzipped or identity, never another coding.                 *)
GzipOrIdentity ==
  ats = "readHook" /\ html => encoding \in {"gzip", "identity"}

(* [GET] PageSpeed is given HTML, never a compressed body, and the client  *)
(* gets the coding the response's Content-Encoding names, which the        *)
(* transformations leave as the origin sent it.                            *)
BodyMatchesHeaders ==
  Ordinary /\ ats = "done" => body = encoding /\ (chain # << >> => html)

(* [GET] The comment at ats_pagespeed.cpp:253: the origin may be asked for *)
(* gzip, but a client gets a body in a coding it accepts.                  *)
ClientCanDecode ==
  Ordinary /\ ats = "done" => body \in Acceptable(clientAccepts)

(* A request is governed by the first rule that matches it.  Where that    *)
(* rule disables PageSpeed, or there is none, the origin is asked what the *)
(* client asked and the response is left alone, also when a later rule     *)
(* matches; otherwise nothing but that rule may rewrite it.  [GET] A       *)
(* response that is HTML is then rewritten; whether answers to other       *)
(* requests should be is left open.                                        *)
FirstRuleGoverns ==
  ats = "done" =>
    LET Enabling == {i \in RuleIds : /\ Matches(i) /\ ~rules[i].disabled
                                     /\ \A j \in 1 .. i - 1 : ~Matches(j)}
    IN  IF Enabling = {}
        THEN asked = clientAccepts /\ chain = << >>
        ELSE /\ chain # << >> => setup \in Enabling
             /\ Ordinary => setup \in Enabling /\ (html => chain # << >>)

(* [GET] Every hook is resumed once: ATS asked once.                       *)
ResumedOnce == Ordinary => resumes <= 1

(* Every transaction ends, whatever rule governs it and whatever the       *)
(* origin answers.                                                         *)
TransactionEnds == <>(ats = "done")
=============================================================================
