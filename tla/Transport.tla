----------------------------- MODULE Transport ------------------------------
(***************************************************************************)
(* One call of a client through the generated transport and back: the      *)
(* request is decoded, its token verified under the keys the process       *)
(* holds, the method runs and refuses or succeeds, its error is encoded    *)
(* for the route and decoded again by the client, who may lose the answer  *)
(* and send the same call once more.  Meanwhile other callers change the   *)
(* row, the issuer rotates its key or stops answering, and the process     *)
(* restarts.                                                               *)
(***************************************************************************)
EXTENDS RouteTables, Results, Naturals

CONSTANTS
  MaxRevision,   \* bound: revisions the row goes through
  MaxAttempts    \* bound: times a client sends one call

ASSUME TransportAssumption ==
  /\ MaxRevision \in Nat \ {0}
  /\ MaxAttempts \in Nat \ {0}

VARIABLES
  revision,    \* of the row the call is about
  signing,     \* the key the issuer signs with
  reachable,   \* the issuer's key endpoint answers
  held,        \* the key this process verifies under, if it has fetched one
  call         \* the one call

vars == <<revision, signing, reachable, held, call>>

Keys == {"old", "new"}
NoKey == "none"
-----------------------------------------------------------------------------
(* What a method can come back with.                                       *)

Success == [kind |-> "result", type |-> "result", name |-> "", reason |-> ""]
\* A plain error: an unwired dependency, a failed statement, a lost connection.
Fault == [kind |-> "fault", type |-> "goa", name |-> "", reason |-> ""]
\* A goa.ServiceError: the request was not decoded.
Malformed == [kind |-> "malformed", type |-> "goa", name |-> "malformed", reason |-> ""]
Refusal(type, name, reason) ==
  [kind |-> "refusal", type |-> type, name |-> name, reason |-> reason]

NotAuthorized == Refusal("UnauthorizedError", "Unauthorized", "")

ItemRoutes == {"set_item_status", "assign_item", "update_item"}
DecisionRoutes == {"withdraw_application", "accept_application", "deny_application"}
ApplicationRoutes ==
  DecisionRoutes \cup {"create_application", "revise_application", "delete_application"}
TemplateRoutes ==
  {"list_templates", "get_template", "create_template",
   "update_template", "publish_template", "archive_template"}

\* A domain.ReasonError is a sentinel with a reason; a bare sentinel has none.
ReasonErr(sentinel, reasons) == {<<sentinel, r>> : r \in reasons}
Bare(sentinel) == {<<sentinel, "">>}

\* The refusals that come before the revision is compared ...
BeforeRevision(r) ==
  CASE r \in {"get_formation", "get_formation_activity"} -> Bare("NotFound")
    [] r \in ItemRoutes ->
         ReasonErr("NotFound", {"not_found", "unknown_item_key"})
           \cup ReasonErr("Conflict", {"checklist_read_only"})
    [] r \in ApplicationRoutes \ {"create_application"} -> Bare("NotFound")
    [] OTHER -> {}

\* ... and those that come after: what the method thinks of the payload, or of
\* the row's state.
ItemPayload(r) ==
  CASE r = "set_item_status" ->
         ReasonErr("BadRequest", {"no_fields_to_update", "blocked_reason_required",
                                  "skip_reason_required", "return_reason_required",
                                  "sub_item_null", "unknown_sub_item_key"})
           \cup ReasonErr("Conflict", {"invalid_transition"})
    [] r = "assign_item" ->
         ReasonErr("BadRequest", {"no_fields_to_update", "due_date_invalid",
                                  "assignee_not_on_project"})
    [] r = "update_item" ->
         ReasonErr("BadRequest", {"no_fields_to_update", "link_scheme_invalid"})

AnswersInvalid ==
  ReasonErr("BadRequest", {"application_payload_too_large", "application_field_invalid",
                           "project_website_invalid", "formation_list_invalid"})

TooLarge == ReasonErr("BadRequest", {"application_payload_too_large"})

ApplicationPayload(r) ==
  CASE r = "create_application" ->
         AnswersInvalid \cup ReasonErr("BadRequest", {"submitter_username_required"})
    [] r = "revise_application" -> AnswersInvalid
    [] r \in DecisionRoutes -> TooLarge
    [] r = "delete_application" -> {}

TemplateState(r) ==
  CASE r = "list_templates"   -> {}
    [] r = "get_template"     -> ReasonErr("NotFound", {"not_found"})
    [] r = "create_template"  ->
         ReasonErr("BadRequest", {"invalid_sections"})
           \cup ReasonErr("Conflict", {"template_already_exists"})
    [] r = "update_template"  ->
         ReasonErr("BadRequest", {"invalid_sections"}) \cup Bare("BadRequest")
           \cup Bare("NotFound") \cup ReasonErr("Conflict", {"template_not_draft"})
    [] r = "publish_template" -> ReasonErr("Conflict", {"template_not_draft"})
    [] r = "archive_template" -> ReasonErr("Conflict", {"template_already_archived"})

AfterRevision(r) ==
  CASE r \in ItemRoutes        -> ItemPayload(r)
    [] r \in ApplicationRoutes -> ApplicationPayload(r)
    [] r \in TemplateRoutes    -> TemplateState(r)
    [] OTHER                   -> {}

\* A method parses the identifier once more, although no request with a bad one is
\* decoded.
BadIdentifier(r) ==
  IF r \in ApplicationRoutes THEN ReasonErr("BadRequest", {"application_uid_invalid"})
  ELSE ReasonErr("NotFound", {"not_found"})
-----------------------------------------------------------------------------
(* From what the domain says to what the design declared.                  *)

\* mapReasonError.
MapReasonError(e) ==
  IF e[2] # "" /\ e[1] \in {"NotFound", "VersionMismatch", "Conflict", "BadRequest"}
  THEN Refusal("FormationError", e[1], e[2]) ELSE Fault

\* withApplicationReason, on the routes that have a row to miss.
WithApplicationReason(e) ==
  CASE e = <<"VersionMismatch", "">> -> <<"VersionMismatch", "version_mismatch">>
    [] e = <<"NotFound", "">>        -> <<"NotFound", "not_found">>
    [] OTHER                         -> e

\* mapApplicationError: no conflict on these routes.
MapApplicationError(e) ==
  IF e[2] # "" /\ e[1] \in {"NotFound", "VersionMismatch", "BadRequest"}
  THEN Refusal("ApplicationError", e[1], e[2]) ELSE Fault

\* withTemplateReason.
WithTemplateReason(e) ==
  CASE e = <<"NotFound", "">>   -> <<"NotFound", "not_found">>
    [] e = <<"Conflict", "">>   -> <<"Conflict", "template_not_draft">>
    [] e = <<"BadRequest", "">> -> <<"BadRequest", "no_fields_to_update">>
    [] OTHER                    -> e

\* mapTemplateError: no revisions on these routes.
MapTemplateError(e) ==
  IF e[2] # "" /\ e[1] \in {"NotFound", "Conflict", "BadRequest"}
  THEN Refusal("TemplateError", e[1], e[2]) ELSE Fault

\* The two reading routes have a type of their own, without a reason.
ReaderError(e) ==
  IF e[1] = "NotFound" THEN Refusal("NotFoundError", "NotFound", "") ELSE Fault

Mapped(r, e) ==
  CASE r \in ItemRoutes        -> MapReasonError(e)
    [] r \in ApplicationRoutes -> MapApplicationError(WithApplicationReason(e))
    [] r \in TemplateRoutes    -> MapTemplateError(WithTemplateReason(e))
    [] OTHER                   -> ReaderError(e)
-----------------------------------------------------------------------------
(* The wire.                                                               *)

StatusOf == [ NotFound |-> 404, VersionMismatch |-> 412, Conflict |-> 409,
              BadRequest |-> 400, Unauthorized |-> 401, ServiceUnavailable |-> 503 ]

SuccessStatus(r) ==
  CASE r \in {"create_application", "create_template"} -> 201
    [] r = "delete_application"                        -> 204
    [] OTHER                                           -> 200

NoReply == [status |-> 0, type |-> "none", name |-> "", reason |-> ""]
Reply(status, e) == [status |-> status, type |-> e.type, name |-> e.name, reason |-> e.reason]

\* EncodeXError and EncodeXResponse. An error under a declared name but of another
\* type leaves the encoder's pointer nil: the handler panics and the connection
\* closes without an answer.
Encode(r, e) ==
  CASE e.kind = "result"                    -> Reply(SuccessStatus(r), e)
    [] <<e.name, e.type>> \in Encodes[r]    -> Reply(StatusOf[e.name], e)
    [] /\ e.kind = "refusal" /\ <<e.name, e.type>> \notin Encodes[r]
       /\ \E d \in Encodes[r] : d[1] = e.name -> NoReply
    [] e.kind = "malformed"                 -> Reply(400, Malformed)
    [] OTHER                                -> Reply(500, Fault)

\* The reasons each error type may carry, which the client's validators enforce.
FormationReasons ==
  {"not_found", "version_mismatch", "unknown_item_key", "checklist_read_only",
   "invalid_transition", "blocked_reason_required", "skip_reason_required",
   "return_reason_required", "assignee_not_on_project", "link_scheme_invalid",
   "due_date_invalid", "sub_item_null", "unknown_sub_item_key", "no_fields_to_update"}

ApplicationReasons ==
  {"not_found", "application_uid_invalid", "version_mismatch",
   "submitter_username_required", "project_website_invalid", "formation_list_invalid",
   "application_field_invalid", "application_payload_too_large"}

TemplateReasons ==
  {"not_found", "template_not_draft", "template_already_archived",
   "template_already_exists", "no_fields_to_update", "invalid_sections"}

Valid(reply) ==
  CASE reply.type = "FormationError"   -> reply.reason \in FormationReasons
    [] reply.type = "ApplicationError" -> reply.reason \in ApplicationReasons
    [] reply.type = "TemplateError"    -> reply.reason \in TemplateReasons
    [] OTHER                           -> TRUE

\* Whether the client can read a success, for the bodies each method may have built.
Readings == [r \in Routes |-> {\A o \in body : Readable(o) : body \in Built(r)}]

\* DecodeXResponse: the status picks the type to decode, the body must be of it.
Decode(r, reply, readable) ==
  CASE reply = NoReply                   -> [Fault EXCEPT !.kind = "nothing"]
    [] reply.status = SuccessStatus(r) /\ readable -> Success
    [] /\ <<reply.status, reply.type>> \in Decodes[r]
       /\ Valid(reply)                   -> Refusal(reply.type, reply.name, reply.reason)
    [] OTHER                             -> [Fault EXCEPT !.kind = "unreadable"]
-----------------------------------------------------------------------------
(* The call.                                                               *)

\* A genuine token is named by the key it verifies under. "invalid" stands for what no
\* key makes good: another's signature, an expired token, a wrong audience or issuer,
\* no principal. "garbled" is no token at all, or one of another algorithm.
Tokens == Keys \cup {"invalid", "garbled"}

\* A call is idle, sent, decoded, admitted, replied to and heard, in this order.
Nothing == [Fault EXCEPT !.kind = "none"]
NoCall == [step |-> "idle", route |-> "livez", carries |-> {}, token |-> "invalid",
           ifMatch |-> 0, under |-> NoKey, attempts |-> 0, applied |-> 0,
           said |-> Nothing, reply |-> NoReply, heard |-> Nothing]

\* What travels: what the client fills in with whatever the caller gave, or another
\* client's request that has all but one of the parts.
Carried(r) ==
  {Sends[r] \cup a : a \in SUBSET CallerParts} \cup {Parts \ {p} : p \in Parts}

Call(r, carries, token) ==
  /\ call.step = "idle"
  /\ call' = [NoCall EXCEPT !.step = "sent", !.route = r, !.carries = carries,
                !.token = token, !.ifMatch = revision, !.attempts = 1]
  /\ UNCHANGED <<revision, signing, reachable, held>>

\* The handler answers for itself, or for the endpoint.
Answer(e, step) ==
  call' = [call EXCEPT !.step = step, !.said = e,
             !.reply = IF step = "replied" THEN Encode(call.route, e) ELSE @]

DecodeRequest ==
  /\ call.step = "sent"
  /\ IF Requires[call.route] \subseteq call.carries
     THEN call' = [call EXCEPT !.step = "decoded"]
     ELSE Answer(Malformed, "replied")
  /\ UNCHANGED <<revision, signing, reachable, held>>

\* Mutant: every error of the validator is the caller's fault.
KeysUnavailable_Refused == NotAuthorized

\* ErrAuthUnavailable and a missing authenticator stay plain errors.
KeysUnavailable == Fault

\* JWTAuth, called by the endpoint of every secured method before the method. What
\* does not parse is refused before any key is asked for ...
RejectGarbled ==
  /\ call.step = "decoded" /\ call.route \in Secured /\ call.token = "garbled"
  /\ Answer(NotAuthorized, "replied")
  /\ UNCHANGED <<revision, signing, reachable, held>>

\* ... and the rest is validated under the keys, which the provider's key function
\* fetches when it has none.
Authorize ==
  /\ call.step = "decoded" /\ call.route \in Secured /\ call.token # "garbled"
  /\ held' = IF held = NoKey /\ reachable THEN signing ELSE held
  /\ CASE held' = NoKey -> Answer(KeysUnavailable, "replied")
       [] held' # NoKey /\ call.token = held' ->
            call' = [call EXCEPT !.step = "admitted", !.under = held']
       [] held' # NoKey /\ call.token # held' ->
            call' = [call EXCEPT !.step = "replied", !.under = held', !.said = NotAuthorized,
                       !.reply = Encode(call.route, NotAuthorized)]
  /\ UNCHANGED <<revision, signing, reachable>>

\* A deployment without an authenticator.
NoAuthenticator ==
  /\ call.step = "decoded" /\ call.route \in Secured
  /\ Answer(KeysUnavailable, "replied")
  /\ UNCHANGED <<revision, signing, reachable, held>>

Probe ==
  /\ call.step = "decoded" /\ call.route \notin Secured
  /\ \E e \in {Success} \cup (IF call.route = "readyz"
                 THEN {Refusal("ServiceUnavailableError", "ServiceUnavailable", "")} ELSE {}) :
       Answer(e, "replied")
  /\ UNCHANGED <<revision, signing, reachable, held>>

\* Mutant: the revision is not compared.
Stale_Never == FALSE

Stale == "if_match" \in Requires[call.route] /\ call.ifMatch # revision

\* What the domain can say to this call now.
Raised ==
  LET r == call.route
      parses == "uid" \in call.carries \/ r \notin
        {"revise_application", "delete_application", "get_template", "update_template",
         "publish_template", "archive_template"} \cup DecisionRoutes
  IN CASE ~parses         -> BadIdentifier(r)
       [] parses /\ Stale -> BeforeRevision(r)
                               \cup ReasonErr("VersionMismatch", {"version_mismatch"})
       [] OTHER           -> BeforeRevision(r) \cup AfterRevision(r)

Refuse ==
  /\ call.step = "admitted"
  /\ \E e \in Raised : Answer(Mapped(call.route, e), "replied")
  /\ UNCHANGED <<revision, signing, reachable, held>>

\* A failed statement, an unwired store.
Fail ==
  /\ call.step = "admitted"
  /\ Answer(Fault, "replied")
  /\ UNCHANGED <<revision, signing, reachable, held>>

Reads == {"get_formation", "get_formation_activity", "list_templates", "get_template"}

Succeed ==
  /\ call.step = "admitted" /\ ~Stale
  /\ Requires[call.route] \subseteq call.carries
  /\ IF call.route \in Reads THEN UNCHANGED revision
     ELSE revision < MaxRevision /\ revision' = revision + 1
  /\ call' = [call EXCEPT !.step = "replied", !.said = Success,
                !.applied = IF call.route \in Reads THEN @ ELSE @ + 1,
                !.reply = Encode(call.route, Success)]
  /\ UNCHANGED <<signing, reachable, held>>

Hear ==
  /\ call.step = "replied"
  /\ \E readable \in Readings[call.route] :
       call' = [call EXCEPT !.step = "heard",
                  !.heard = Decode(call.route, call.reply, readable)]
  /\ UNCHANGED <<revision, signing, reachable, held>>

\* The answer is lost, and the client sends what it sent before.
LoseAndRetry ==
  /\ call.step = "replied" /\ call.attempts < MaxAttempts
  /\ call' = [call EXCEPT !.step = "sent", !.attempts = @ + 1, !.under = NoKey,
                !.said = Nothing, !.reply = NoReply]
  /\ UNCHANGED <<revision, signing, reachable, held>>

Forget ==
  /\ call.step = "heard"
  /\ call' = NoCall
  /\ UNCHANGED <<revision, signing, reachable, held>>
-----------------------------------------------------------------------------
(* The surroundings.                                                       *)

OtherWrite ==
  /\ revision < MaxRevision /\ revision' = revision + 1
  /\ UNCHANGED <<signing, reachable, held, call>>

Rotate ==
  /\ signing = "old" /\ signing' = "new"
  /\ UNCHANGED <<revision, reachable, held, call>>

EndpointFails ==
  /\ reachable /\ reachable' = FALSE
  /\ UNCHANGED <<revision, signing, held, call>>

EndpointReturns ==
  /\ ~reachable /\ reachable' = TRUE
  /\ UNCHANGED <<revision, signing, held, call>>

\* The cached keys have aged out and are fetched again.
RefreshKeys ==
  /\ held # NoKey /\ reachable /\ held' = signing
  /\ UNCHANGED <<revision, signing, reachable, call>>

\* The process restarts with no keys; a call it was working on gets no answer.
Restart ==
  /\ held' = NoKey
  /\ call' = IF call.step \in {"sent", "decoded", "admitted"}
             THEN [call EXCEPT !.step = "replied", !.reply = NoReply, !.said = Nothing,
                     !.under = NoKey] ELSE call
  /\ UNCHANGED <<revision, signing, reachable>>

Init ==
  /\ revision = 1 /\ signing = "old" /\ reachable \in BOOLEAN /\ held = NoKey
  /\ call = NoCall

Next ==
  \/ \E r \in Routes, token \in Tokens : \E carries \in Carried(r) : Call(r, carries, token)
  \/ DecodeRequest \/ RejectGarbled \/ Authorize \/ NoAuthenticator \/ Probe
  \/ Refuse \/ Fail \/ Succeed \/ Hear \/ LoseAndRetry \/ Forget
  \/ OtherWrite \/ Rotate \/ EndpointFails \/ EndpointReturns \/ RefreshKeys \/ Restart

Spec == Init /\ [][Next]_vars
-----------------------------------------------------------------------------
\* The refusal no design declares: an application that a decision pushes past the
\* size limit of its envelope.
Undeclared(r, e) == r \in DecisionRoutes /\ e.reason = "application_payload_too_large"

\* What the service says is what the client understands. A refusal arrives under its
\* own name and reason, on every route, and the one the design leaves out is
\* unreadable rather than another refusal; a result arrives as a result, whatever the
\* template left out of the row it shows. The comments of mapApplicationError,
\* JWTAuth and ApplyInsertDefaults say what each of them is careful about.
HeardAsItself ==
  call.step = "heard" /\ call.said.kind \in {"refusal", "result"} =>
    IF Undeclared(call.route, call.said) THEN call.heard.kind = "unreadable"
    ELSE call.heard = call.said

\* Every refusal a method makes is one the design declares for its route - but for
\* the envelope - and a client that was given a good identifier and filters never
\* sends a request the server cannot decode.
RoutesKeepTheDesign ==
  /\ call.said.kind = "refusal" =>
       call.said.name \in Declares[call.route] \/ Undeclared(call.route, call.said)
  /\ call.said.kind = "malformed" => ~(Sends[call.route] \cup CallerParts \subseteq call.carries)

\* errors.go: an outage of the key provider must not tell a valid caller that their
\* credentials are bad. Whoever is told so sent what is no token, or was judged under a
\* key that was fetched and under which theirs is not good.
OutageIsNotARefusal ==
  call.step = "heard" /\ call.heard.name = "Unauthorized" =>
    \/ call.token = "garbled"
    \/ call.under # NoKey /\ call.token # call.under

\* A client that lost an answer and sent the same call again under the same revision
\* has not applied it twice, whatever it hears.
AppliedOnce ==
  "if_match" \in Requires[call.route] => call.applied <= 1
=============================================================================
