--------------------------- MODULE TransportProofs --------------------------
(***************************************************************************)
(* What holds of a call for every bound on revisions and attempts: a call  *)
(* sent again under the same revision is applied once at most, nobody is   *)
(* told that a good token is bad because of an outage of the keys,         *)
(* and what the service says is what the client hears.  The last rests on  *)
(* the tables of the contract, compared route by route, and on the bodies  *)
(* the methods build, read field by field.                                 *)
(***************************************************************************)
EXTENDS Transport, TLAPS

Fields ==
  {"step", "route", "carries", "token", "ifMatch", "under", "attempts", "applied",
   "said", "reply", "heard"}

\* A call has the fields NoCall has, whatever was done to it.
Shaped == DOMAIN call = Fields

LEMMA NoCallShaped == DOMAIN NoCall = Fields
  BY DEF NoCall, Fields

LEMMA ShapedStep == ASSUME Shaped, [Next]_vars PROVE Shaped'
<1>1. CASE UNCHANGED vars
  BY <1>1 DEF vars, Shaped
<1>2. ASSUME NEW r \in Routes, NEW token \in Tokens, NEW carries \in Carried(r),
             Call(r, carries, token)
      PROVE  Shaped'
  BY <1>2, NoCallShaped DEF Call, Shaped
<1>3. CASE DecodeRequest
  BY <1>3 DEF DecodeRequest, Answer, Shaped
<1>4. CASE RejectGarbled \/ Authorize
  BY <1>4 DEF RejectGarbled, Authorize, Answer, Shaped
<1>5. CASE NoAuthenticator
  BY <1>5 DEF NoAuthenticator, Answer, Shaped
<1>6. CASE Probe
  BY <1>6 DEF Probe, Answer, Shaped
<1>7. CASE Refuse
  BY <1>7 DEF Refuse, Answer, Shaped
<1>8. CASE Fail
  BY <1>8 DEF Fail, Answer, Shaped
<1>9. CASE Succeed
  BY <1>9 DEF Succeed, Shaped
<1>10. CASE Hear
  BY <1>10 DEF Hear, Shaped
<1>11. CASE LoseAndRetry
  BY <1>11 DEF LoseAndRetry, Shaped
<1>12. CASE Forget
  BY <1>12, NoCallShaped DEF Forget, Shaped
<1>13. CASE Restart
  BY <1>13 DEF Restart, Shaped
<1>14. CASE OtherWrite \/ Rotate \/ EndpointFails \/ EndpointReturns \/ RefreshKeys
  BY <1>14 DEF OtherWrite, Rotate, EndpointFails, EndpointReturns, RefreshKeys, Shaped
<1> QED
  BY <1>1, <1>2, <1>3, <1>4, <1>5, <1>6, <1>7, <1>8, <1>9, <1>10, <1>11, <1>12, <1>13,
     <1>14 DEF Next
-----------------------------------------------------------------------------
(* A call applied under a revision has moved the row past it.              *)

Spent ==
  /\ revision \in Nat /\ call.ifMatch \in Nat /\ call.applied \in Nat
  /\ call.ifMatch <= revision
  /\ "if_match" \in Requires[call.route] =>
       call.applied <= 1 /\ (call.applied = 1 => call.ifMatch < revision)

LEMMA ReadsUnconditional == \A r \in Reads : "if_match" \notin Requires[r]
  BY DEF Reads, Requires, GetFormation_Requires, GetFormationActivity_Requires,
         ListTemplates_Requires, GetTemplate_Requires

\* The fields the comparison of revisions reads, as the other actions leave them.
Untouched ==
  /\ revision' = revision /\ call'.route = call.route
  /\ call'.ifMatch = call.ifMatch /\ call'.applied = call.applied

LEMMA SpentStep == ASSUME Shaped, Spent, [Next]_vars PROVE Spent'
<1>1. CASE UNCHANGED vars
  BY <1>1 DEF vars, Spent
<1>2. ASSUME NEW r \in Routes, NEW token \in Tokens, NEW carries \in Carried(r),
             Call(r, carries, token)
      PROVE  Spent'
  BY <1>2 DEF Call, NoCall, Spent
<1>3. ASSUME Untouched PROVE Spent'
  BY <1>3 DEF Untouched, Spent
<1>4. CASE DecodeRequest \/ RejectGarbled \/ NoAuthenticator \/ Probe \/ Refuse \/ Fail
  BY <1>3, <1>4 DEF DecodeRequest, RejectGarbled, NoAuthenticator, Probe, Refuse, Fail, Answer, Untouched,
                    Shaped, Fields
<1>5. CASE Authorize
  BY <1>3, <1>5 DEF Authorize, Answer, Untouched, Shaped, Fields
<1>6. CASE Hear \/ LoseAndRetry \/ Restart
  BY <1>3, <1>6 DEF Hear, LoseAndRetry, Restart, Untouched, Shaped, Fields
<1>7. CASE Rotate \/ EndpointFails \/ EndpointReturns \/ RefreshKeys
  BY <1>3, <1>7 DEF Rotate, EndpointFails, EndpointReturns, RefreshKeys, Untouched
<1>8. CASE OtherWrite
  BY <1>8 DEF OtherWrite, Spent
<1>9. CASE Forget
  BY <1>9 DEF Forget, NoCall, Spent
<1>10. CASE Succeed
  <2>1. /\ call'.route = call.route /\ call'.ifMatch = call.ifMatch
        /\ call'.applied = IF call.route \in Reads THEN call.applied ELSE call.applied + 1
    BY <1>10 DEF Succeed, Shaped, Fields
  <2>2. CASE call.route \in Reads
    BY <1>3, <1>10, <2>1, <2>2 DEF Succeed, Untouched
  <2>3. CASE call.route \notin Reads
    <3>1. revision' = revision + 1 /\ call'.applied = call.applied + 1
      BY <1>10, <2>1, <2>3 DEF Succeed
    <3>2. "if_match" \in Requires[call.route] => call.ifMatch = revision
      BY <1>10 DEF Succeed, Stale
    <3> QED
      BY <2>1, <3>1, <3>2 DEF Spent
  <2> QED
    BY <2>2, <2>3
<1> QED
  BY <1>1, <1>2, <1>4, <1>5, <1>6, <1>7, <1>8, <1>9, <1>10 DEF Next

\* A client that lost an answer and sent the same call again under the same revision has
\* not applied it twice, on any route that compares revisions: a success moves the row
\* past the revision the call names, so the second sending is stale.
THEOREM AppliedOnceHolds == Spec => []AppliedOnce
<1>1. Init => Shaped /\ Spent
  BY NoCallShaped DEF Init, Shaped, Spent, NoCall
<1>2. Shaped /\ Spent /\ [Next]_vars => (Shaped /\ Spent)'
  BY ShapedStep, SpentStep
<1>3. Spent => AppliedOnce
  BY DEF Spent, AppliedOnce
<1> QED
  BY <1>1, <1>2, <1>3, PTL DEF Spec
-----------------------------------------------------------------------------
(* The name "Unauthorized" is only ever produced by JWTAuth.               *)

Rejected == "Unauthorized"

\* What came with the call is no token, or was judged under a key that was fetched and
\* is not good under it.
Judged ==
  \/ call.token = "garbled"
  \/ call.under # NoKey /\ call.token # call.under

\* Until it is answered a call has nothing to say, and until it is heard nothing is heard.
Answered ==
  /\ call.step \notin {"replied", "heard"} => call.reply.name # Rejected
  /\ call.step # "heard" => call.heard.name # Rejected
  /\ call.reply.name = Rejected \/ call.heard.name = Rejected => Judged

LEMMA EncodeKeepsName ==
  ASSUME NEW r, NEW e, e.name # Rejected
  PROVE  Encode(r, e).name # Rejected
  BY DEF Encode, Reply, NoReply, Fault, Malformed, Rejected

LEMMA DecodeKeepsName ==
  ASSUME NEW r, NEW reply, NEW readable, reply.name # Rejected
  PROVE  Decode(r, reply, readable).name # Rejected
  BY DEF Decode, Fault, Success, Refusal, Rejected

LEMMA MappedName == ASSUME NEW r, NEW e PROVE Mapped(r, e).name # Rejected
<1>1. MapReasonError(e).name # Rejected
  BY DEF MapReasonError, Refusal, Fault, Rejected
<1>2. ASSUME NEW a PROVE MapApplicationError(a).name # Rejected
  BY DEF MapApplicationError, Refusal, Fault, Rejected
<1>3. ASSUME NEW a PROVE MapTemplateError(a).name # Rejected
  BY DEF MapTemplateError, Refusal, Fault, Rejected
<1>4. ReaderError(e).name # Rejected
  BY DEF ReaderError, Refusal, Fault, Rejected
<1> QED
  BY <1>1, <1>2, <1>3, <1>4 DEF Mapped

\* An answer that is not a rejection leaves no rejection to hear.
LEMMA AnswerKeeps ==
  ASSUME Shaped, Answered, NEW e, e.name # Rejected, call.step # "heard",
         Answer(e, "replied")
  PROVE  Answered'
<1>1. call'.reply.name # Rejected
  BY EncodeKeepsName DEF Answer, Shaped, Fields
<1>2. call'.heard.name # Rejected
  BY DEF Answer, Answered, Shaped, Fields
<1> QED
  BY <1>1, <1>2 DEF Answered

LEMMA AnsweredStep == ASSUME Shaped, Answered, [Next]_vars PROVE Answered'
<1>1. CASE UNCHANGED call
  BY <1>1 DEF Answered, Judged
<1>2. ASSUME NEW r \in Routes, NEW token \in Tokens, NEW carries \in Carried(r),
             Call(r, carries, token)
      PROVE  Answered'
  BY <1>2 DEF Call, NoCall, NoReply, Nothing, Fault, Answered, Rejected
<1>3. CASE DecodeRequest
  <2>1. CASE Requires[call.route] \subseteq call.carries
    BY <1>3, <2>1 DEF DecodeRequest, Answered, Judged, Shaped, Fields
  <2>2. CASE ~(Requires[call.route] \subseteq call.carries)
    <3>1. Malformed.name # Rejected
      BY DEF Malformed, Rejected
    <3> QED
      BY <1>3, <2>2, <3>1, AnswerKeeps DEF DecodeRequest
  <2> QED
    BY <2>1, <2>2
<1>4. Fault.name # Rejected /\ Success.name # Rejected
  BY DEF Fault, Success, Rejected
<1>5. CASE Authorize
  <2>1. CASE held' = NoKey
    BY <1>4, <1>5, <2>1, AnswerKeeps DEF Authorize, KeysUnavailable
  <2>2. CASE held' # NoKey /\ call.token = held'
    BY <1>5, <2>2 DEF Authorize, Answered, Shaped, Fields
  <2>3. CASE held' # NoKey /\ call.token # held'
    <3>1. call'.under = held' /\ call'.token = call.token /\ call'.step = "replied"
          /\ call'.heard = call.heard
      BY <1>5, <2>3 DEF Authorize, Shaped, Fields
    <3> QED
      BY <1>5, <2>3, <3>1 DEF Authorize, Answered, Judged
  <2> QED
    BY <2>1, <2>2, <2>3
<1>15. CASE RejectGarbled
  <2>1. /\ call'.token = "garbled" /\ call'.step = "replied" /\ call'.heard = call.heard
        /\ call.step = "decoded"
    BY <1>15 DEF RejectGarbled, Answer, Shaped, Fields
  <2> QED
    BY <2>1 DEF Answered, Judged
<1>6. CASE NoAuthenticator \/ Fail
  BY <1>4, <1>6, AnswerKeeps DEF NoAuthenticator, Fail, KeysUnavailable
<1>7. CASE Probe
  <2>1. Refusal("ServiceUnavailableError", "ServiceUnavailable", "").name # Rejected
    BY DEF Refusal, Rejected
  <2>2. PICK e \in {Success} \cup (IF call.route = "readyz"
                 THEN {Refusal("ServiceUnavailableError", "ServiceUnavailable", "")} ELSE {}) :
          Answer(e, "replied")
    BY <1>7 DEF Probe
  <2>3. e.name # Rejected
    BY <1>4, <2>1, <2>2
  <2> QED
    BY <1>7, <2>2, <2>3, AnswerKeeps DEF Probe
<1>8. CASE Refuse
  BY <1>8, MappedName, AnswerKeeps DEF Refuse
<1>9. CASE Succeed
  <2>1. Encode(call.route, Success).name # Rejected
    BY <1>4, EncodeKeepsName
  <2>2. /\ call'.reply = Encode(call.route, Success) /\ call'.step = "replied"
        /\ call'.heard = call.heard
    BY <1>9 DEF Succeed, Shaped, Fields
  <2> QED
    BY <1>9, <2>1, <2>2 DEF Succeed, Answered
<1>10. CASE Hear
  <2>1. PICK readable \in Readings[call.route] :
          call' = [call EXCEPT !.step = "heard",
                     !.heard = Decode(call.route, call.reply, readable)]
    BY <1>10 DEF Hear
  <2>2. /\ call'.heard = Decode(call.route, call.reply, readable)
        /\ call'.step = "heard" /\ call'.reply = call.reply
        /\ call'.under = call.under /\ call'.token = call.token
    BY <2>1 DEF Shaped, Fields
  <2> QED
    BY <2>2, DecodeKeepsName DEF Answered, Judged
<1>11. CASE LoseAndRetry
  <2>1. NoReply.name # Rejected
    BY DEF NoReply, Rejected
  <2>2. call.step = "replied" /\ call'.reply = NoReply /\ call'.heard = call.heard
    BY <1>11 DEF LoseAndRetry, Shaped, Fields
  <2> QED
    BY <2>1, <2>2 DEF Answered
<1>14. CASE Restart
  <2>1. NoReply.name # Rejected
    BY DEF NoReply, Rejected
  <2>2. CASE call.step \in {"sent", "decoded", "admitted"}
    <3>1. call'.reply = NoReply /\ call'.heard = call.heard /\ call'.step = "replied"
      BY <1>14, <2>2 DEF Restart, Shaped, Fields
    <3> QED
      BY <2>1, <2>2, <3>1 DEF Answered
  <2> QED
    BY <1>1, <1>14, <2>2 DEF Restart
<1>12. CASE Forget
  BY <1>12 DEF Forget, NoCall, NoReply, Nothing, Fault, Answered, Rejected
<1>13. CASE OtherWrite \/ Rotate \/ EndpointFails \/ EndpointReturns \/ RefreshKeys
  BY <1>1, <1>13 DEF OtherWrite, Rotate, EndpointFails, EndpointReturns, RefreshKeys
<1> QED
  BY <1>1, <1>2, <1>3, <1>5, <1>6, <1>7, <1>8, <1>9, <1>10, <1>11, <1>12, <1>13,
     <1>14, <1>15 DEF Next, vars

\* An outage of the key provider never tells a valid caller that their credentials are
\* bad: whoever hears so sent what does not parse, or was judged under a key JWTAuth had
\* fetched and under which the token is not good, across restarts, rotations and lost
\* answers.
THEOREM OutageIsNotARefusalHolds == Spec => []OutageIsNotARefusal
<1>1. Init => Shaped /\ Answered
  <2>1. NoCall.reply.name # Rejected /\ NoCall.heard.name # Rejected
    BY DEF NoCall, NoReply, Nothing, Fault, Rejected
  <2> QED
    BY <2>1, NoCallShaped DEF Init, Shaped, Answered
<1>2. Shaped /\ Answered /\ [Next]_vars => (Shaped /\ Answered)'
  BY ShapedStep, AnsweredStep
<1>3. Answered => OutageIsNotARefusal
  BY DEF Answered, Judged, OutageIsNotARefusal, Rejected
<1> QED
  BY <1>1, <1>2, <1>3, PTL DEF Spec
-----------------------------------------------------------------------------
(* The tables agree, route by route.                                       *)

ReaderRoutes == {"get_formation", "get_formation_activity"}
OpenRoutes == {"livez", "readyz"}

LEMMA RoutesAre ==
  /\ Routes = ItemRoutes \cup ApplicationRoutes \cup TemplateRoutes \cup ReaderRoutes
                \cup OpenRoutes
  /\ Secured = Routes \ OpenRoutes
<1>1. Routes = ItemRoutes \cup ApplicationRoutes \cup TemplateRoutes \cup ReaderRoutes
                 \cup OpenRoutes
  BY DEF Routes, Declares, ItemRoutes, ApplicationRoutes, DecisionRoutes, TemplateRoutes,
         ReaderRoutes, OpenRoutes
<1>2. \A r \in Routes \ OpenRoutes : "Unauthorized" \in Declares[r]
  <2> SUFFICES ASSUME NEW r \in Routes, r \notin OpenRoutes
               PROVE  "Unauthorized" \in Declares[r]
    OBVIOUS
  <2>1. CASE r \in ItemRoutes \cup ReaderRoutes
    BY <2>1 DEF ItemRoutes, ReaderRoutes, Declares, GetFormation_Declares,
       GetFormationActivity_Declares, SetItemStatus_Declares, AssignItem_Declares,
       UpdateItem_Declares
  <2>2. CASE r \in ApplicationRoutes
    BY <2>2 DEF ApplicationRoutes, DecisionRoutes, Declares, CreateApplication_Declares,
       ReviseApplication_Declares, WithdrawApplication_Declares, AcceptApplication_Declares,
       DenyApplication_Declares, DeleteApplication_Declares
  <2>3. CASE r \in TemplateRoutes
    BY <2>3 DEF TemplateRoutes, Declares, ListTemplates_Declares, GetTemplate_Declares,
       CreateTemplate_Declares, UpdateTemplate_Declares, PublishTemplate_Declares,
       ArchiveTemplate_Declares
  <2> QED
    BY <1>1, <2>1, <2>2, <2>3
<1>3. \A r \in OpenRoutes : r \in Routes /\ "Unauthorized" \notin Declares[r]
  BY <1>1 DEF OpenRoutes, Declares, Livez_Declares, Readyz_Declares
<1> QED
  BY <1>1, <1>2, <1>3 DEF Secured

\* A client fills in what the server asks for, once the caller has given a good identifier
\* and filters.
LEMMA SendsWhatIsRequired ==
  ASSUME NEW r \in Routes PROVE Requires[r] \subseteq Sends[r] \cup CallerParts
<1>1. CASE r \in ItemRoutes \cup ReaderRoutes \cup OpenRoutes
  BY <1>1 DEF ItemRoutes, ReaderRoutes, OpenRoutes, Requires, Sends, CallerParts,
     GetFormation_Requires, GetFormationActivity_Requires, SetItemStatus_Requires,
     AssignItem_Requires, UpdateItem_Requires, GetFormation_Sends,
     GetFormationActivity_Sends, SetItemStatus_Sends, AssignItem_Sends, UpdateItem_Sends
<1>2. CASE r \in ApplicationRoutes
  BY <1>2 DEF ApplicationRoutes, DecisionRoutes, Requires, Sends, CallerParts,
     CreateApplication_Requires, ReviseApplication_Requires, WithdrawApplication_Requires,
     AcceptApplication_Requires, DenyApplication_Requires, DeleteApplication_Requires,
     CreateApplication_Sends, ReviseApplication_Sends, WithdrawApplication_Sends,
     AcceptApplication_Sends, DenyApplication_Sends, DeleteApplication_Sends
<1>3. CASE r \in TemplateRoutes
  BY <1>3 DEF TemplateRoutes, Requires, Sends, CallerParts,
     ListTemplates_Requires, GetTemplate_Requires, CreateTemplate_Requires,
     UpdateTemplate_Requires, PublishTemplate_Requires, ArchiveTemplate_Requires,
     ListTemplates_Sends, GetTemplate_Sends, CreateTemplate_Sends, UpdateTemplate_Sends,
     PublishTemplate_Sends, ArchiveTemplate_Sends
<1> QED
  BY <1>1, <1>2, <1>3, RoutesAre

\* What a route may refuse with besides a bad token: the names, and the type they travel as.
Speaks(r) ==
  CASE r \in ItemRoutes                          -> EveryName
    [] r = "create_application"                  -> {"BadRequest"}
    [] r = "revise_application"                  -> {"BadRequest", "NotFound", "VersionMismatch"}
    [] r \in DecisionRoutes \cup {"delete_application"} -> {"NotFound", "VersionMismatch"}
    [] r \in ReaderRoutes \cup {"get_template"}  -> {"NotFound"}
    [] r = "create_template"                     -> {"BadRequest", "Conflict"}
    [] r = "update_template"                     -> {"BadRequest", "NotFound", "Conflict"}
    [] r \in {"publish_template", "archive_template"} -> {"NotFound", "Conflict"}
    [] r = "readyz"                              -> {"ServiceUnavailable"}
    [] OTHER                                     -> {}

Tongue(r) ==
  CASE r \in ItemRoutes        -> "FormationError"
    [] r \in ApplicationRoutes -> "ApplicationError"
    [] r \in TemplateRoutes    -> "TemplateError"
    [] r \in ReaderRoutes      -> "NotFoundError"
    [] OTHER                   -> "ServiceUnavailableError"

\* The design declares it, the server encodes it, the client decodes it.
Agreed(r, n, t) ==
  /\ n \in Declares[r] /\ n \in DOMAIN StatusOf
  /\ <<n, t>> \in Encodes[r] /\ <<StatusOf[n], t>> \in Decodes[r]

LEMMA TablesAgree ==
  ASSUME NEW r \in Routes, NEW n \in Speaks(r) PROVE Agreed(r, n, Tongue(r))
<1> USE DEF Agreed, Named, Coded, EveryName, StatusOf
<1>1. CASE r \in ItemRoutes
  <2>1. Tongue(r) = "FormationError" /\ n \in EveryName
    BY <1>1 DEF Tongue, Speaks, ItemRoutes, ApplicationRoutes, DecisionRoutes,
       TemplateRoutes, ReaderRoutes
  <2> QED
    BY <1>1, <2>1 DEF ItemRoutes, Declares, Encodes, Decodes,
       SetItemStatus_Declares, AssignItem_Declares, UpdateItem_Declares,
       SetItemStatus_Encodes, AssignItem_Encodes, UpdateItem_Encodes,
       SetItemStatus_Decodes, AssignItem_Decodes, UpdateItem_Decodes
<1>2. CASE r \in ApplicationRoutes
  <2>1. Tongue(r) = "ApplicationError"
    BY <1>2 DEF Tongue, ItemRoutes, ApplicationRoutes, DecisionRoutes, TemplateRoutes,
       ReaderRoutes
  <2>2. CASE r = "create_application"
    BY <2>1, <2>2 DEF Speaks, ItemRoutes, DecisionRoutes, ReaderRoutes, Declares, Encodes,
       Decodes, CreateApplication_Declares, CreateApplication_Encodes, CreateApplication_Decodes
  <2>3. CASE r = "revise_application"
    BY <2>1, <2>3 DEF Speaks, ItemRoutes, DecisionRoutes, ReaderRoutes, Declares, Encodes,
       Decodes, ReviseApplication_Declares, ReviseApplication_Encodes, ReviseApplication_Decodes
  <2>4. CASE r \in DecisionRoutes \cup {"delete_application"}
    <3>1. n \in {"NotFound", "VersionMismatch"}
      BY <2>4 DEF Speaks, ItemRoutes, DecisionRoutes
    <3> QED
      BY <2>1, <2>4, <3>1 DEF DecisionRoutes, Declares, Encodes, Decodes,
         WithdrawApplication_Declares, AcceptApplication_Declares, DenyApplication_Declares,
         DeleteApplication_Declares, WithdrawApplication_Encodes, AcceptApplication_Encodes,
         DenyApplication_Encodes, DeleteApplication_Encodes, WithdrawApplication_Decodes,
         AcceptApplication_Decodes, DenyApplication_Decodes, DeleteApplication_Decodes
  <2> QED
    BY <1>2, <2>2, <2>3, <2>4 DEF ApplicationRoutes
<1>3. CASE r \in TemplateRoutes
  <2>1. Tongue(r) = "TemplateError"
    BY <1>3 DEF Tongue, ItemRoutes, ApplicationRoutes, DecisionRoutes, TemplateRoutes,
       ReaderRoutes
  <2>2. r # "list_templates"
    BY DEF Speaks, ItemRoutes, DecisionRoutes, ReaderRoutes
  <2>3. CASE r = "get_template"
    BY <2>1, <2>3 DEF Speaks, ItemRoutes, DecisionRoutes, ReaderRoutes, Declares, Encodes,
       Decodes, GetTemplate_Declares, GetTemplate_Encodes, GetTemplate_Decodes
  <2>4. CASE r = "create_template"
    BY <2>1, <2>4 DEF Speaks, ItemRoutes, DecisionRoutes, ReaderRoutes, Declares, Encodes,
       Decodes, CreateTemplate_Declares, CreateTemplate_Encodes, CreateTemplate_Decodes
  <2>5. CASE r = "update_template"
    BY <2>1, <2>5 DEF Speaks, ItemRoutes, DecisionRoutes, ReaderRoutes, Declares, Encodes,
       Decodes, UpdateTemplate_Declares, UpdateTemplate_Encodes, UpdateTemplate_Decodes
  <2>6. CASE r \in {"publish_template", "archive_template"}
    <3>1. n \in {"NotFound", "Conflict"}
      BY <2>6 DEF Speaks, ItemRoutes, DecisionRoutes, ReaderRoutes
    <3> QED
      BY <2>1, <2>6, <3>1 DEF Declares, Encodes, Decodes, PublishTemplate_Declares,
         PublishTemplate_Encodes, PublishTemplate_Decodes, ArchiveTemplate_Declares,
         ArchiveTemplate_Encodes, ArchiveTemplate_Decodes
  <2> QED
    BY <1>3, <2>2, <2>3, <2>4, <2>5, <2>6 DEF TemplateRoutes
<1>4. CASE r \in ReaderRoutes
  <2>1. Tongue(r) = "NotFoundError" /\ n = "NotFound"
    BY <1>4 DEF Tongue, Speaks, ItemRoutes, ApplicationRoutes, DecisionRoutes,
       TemplateRoutes, ReaderRoutes
  <2> QED
    BY <1>4, <2>1 DEF ReaderRoutes, Declares, Encodes, Decodes, GetFormation_Declares,
       GetFormationActivity_Declares, GetFormation_Encodes, GetFormationActivity_Encodes,
       GetFormation_Decodes, GetFormationActivity_Decodes
<1>5. CASE r \in OpenRoutes
  <2>1. r = "readyz" /\ n = "ServiceUnavailable" /\ Tongue(r) = "ServiceUnavailableError"
    BY <1>5 DEF Tongue, Speaks, ItemRoutes, ApplicationRoutes, DecisionRoutes,
       TemplateRoutes, ReaderRoutes, OpenRoutes
  <2> QED
    BY <2>1 DEF Declares, Encodes, Decodes, Readyz_Declares, Readyz_Encodes, Readyz_Decodes
<1> QED
  BY <1>1, <1>2, <1>3, <1>4, <1>5, RoutesAre

LEMMA RejectionAgreed ==
  ASSUME NEW r \in Secured PROVE Agreed(r, "Unauthorized", "UnauthorizedError")
<1> USE DEF Agreed, StatusOf, Unauthorized, Refused
<1>1. "Unauthorized" \in Declares[r] /\ StatusOf["Unauthorized"] = 401
  BY DEF Secured
<1>2. CASE r \in ItemRoutes \cup ReaderRoutes
  BY <1>1, <1>2 DEF ItemRoutes, ReaderRoutes, Encodes, Decodes, GetFormation_Encodes,
     GetFormationActivity_Encodes, SetItemStatus_Encodes, AssignItem_Encodes,
     UpdateItem_Encodes, GetFormation_Decodes, GetFormationActivity_Decodes,
     SetItemStatus_Decodes, AssignItem_Decodes, UpdateItem_Decodes
<1>3. CASE r \in ApplicationRoutes
  BY <1>1, <1>3 DEF ApplicationRoutes, DecisionRoutes, Encodes, Decodes,
     CreateApplication_Encodes, ReviseApplication_Encodes, WithdrawApplication_Encodes,
     AcceptApplication_Encodes, DenyApplication_Encodes, DeleteApplication_Encodes,
     CreateApplication_Decodes, ReviseApplication_Decodes, WithdrawApplication_Decodes,
     AcceptApplication_Decodes, DenyApplication_Decodes, DeleteApplication_Decodes
<1>4. CASE r \in TemplateRoutes
  BY <1>1, <1>4 DEF TemplateRoutes, Encodes, Decodes,
     ListTemplates_Encodes, GetTemplate_Encodes, CreateTemplate_Encodes,
     UpdateTemplate_Encodes, PublishTemplate_Encodes, ArchiveTemplate_Encodes,
     ListTemplates_Decodes, GetTemplate_Decodes, CreateTemplate_Decodes,
     UpdateTemplate_Decodes, PublishTemplate_Decodes, ArchiveTemplate_Decodes
<1> QED
  BY <1>2, <1>3, <1>4, RoutesAre
-----------------------------------------------------------------------------
(* What is said arrives.                                                   *)

\* A refusal the tables agree on is heard under its own name and reason ...
Arrives(r, e) ==
  /\ e.kind = "refusal" /\ e.name \in Declares[r] /\ ~Undeclared(r, e)
  /\ \A readable \in {TRUE} : Decode(r, Encode(r, e), readable) = e

\* ... and the one the design leaves out is not heard as another.
Unheard(r, e) ==
  /\ e.kind = "refusal" /\ Undeclared(r, e)
  /\ \A readable \in {TRUE} : Decode(r, Encode(r, e), readable).kind = "unreadable"

LEMMA SuccessStatusIs == ASSUME NEW r PROVE SuccessStatus(r) \in {200, 201, 204}
  BY DEF SuccessStatus

LEMMA AgreedArrives ==
  ASSUME NEW r, NEW n, NEW t, NEW reason, Agreed(r, n, t),
         Valid([status |-> StatusOf[n], type |-> t, name |-> n, reason |-> reason]),
         ~Undeclared(r, Refusal(t, n, reason))
  PROVE  Arrives(r, Refusal(t, n, reason))
<1> DEFINE e == Refusal(t, n, reason)
           reply == [status |-> StatusOf[n], type |-> t, name |-> n, reason |-> reason]
<1>1. e.kind = "refusal" /\ e.type = t /\ e.name = n /\ e.reason = reason
  BY DEF Refusal
<1>2. <<e.name, e.type>> \in Encodes[r] /\ <<StatusOf[n], t>> \in Decodes[r]
      /\ n \in Declares[r] /\ n \in DOMAIN StatusOf
  BY <1>1 DEF Agreed
<1>3. StatusOf[n] \in {400, 401, 404, 409, 412, 503}
  BY <1>2 DEF StatusOf
<1>4. Reply(StatusOf[e.name], e) = reply
  BY <1>1 DEF Reply
<1>5. reply.status = StatusOf[n] /\ reply.type = t /\ reply.name = n /\ reply.reason = reason
  OBVIOUS
<1> HIDE DEF e
<1>6. Encode(r, e) = reply
  BY <1>1, <1>2, <1>4 DEF Encode
<1> HIDE DEF reply
<1>7. reply # NoReply /\ reply.status # SuccessStatus(r)
  <2>1. NoReply.status = 0 /\ SuccessStatus(r) \in {200, 201, 204}
    BY SuccessStatusIs DEF NoReply
  <2> QED
    BY <1>3, <1>5, <2>1
<1>8. Decode(r, reply, TRUE) = Refusal(t, n, reason)
  <2>1. Valid(reply)
    BY DEF reply
  <2> QED
    BY <1>2, <1>5, <1>7, <2>1 DEF Decode
<1>9. Decode(r, reply, TRUE) = e
  BY <1>8 DEF e
<1>10. ~Undeclared(r, e)
  BY DEF e
<1>11. Arrives(r, e)
  BY <1>1, <1>2, <1>6, <1>9, <1>10 DEF Arrives
<1> QED
  BY <1>11 DEF e

LEMMA TooLargeIsUnheard ==
  ASSUME NEW r \in DecisionRoutes
  PROVE  Unheard(r, Refusal("ApplicationError", "BadRequest", "application_payload_too_large"))
<1> DEFINE e == Refusal("ApplicationError", "BadRequest", "application_payload_too_large")
<1>1. /\ e.kind = "refusal" /\ e.type = "ApplicationError" /\ e.name = "BadRequest"
      /\ e.reason = "application_payload_too_large"
  BY DEF Refusal
<1>2. \A d \in Encodes[r] : d[1] # "BadRequest"
  BY DEF DecisionRoutes, Encodes, WithdrawApplication_Encodes, AcceptApplication_Encodes,
     DenyApplication_Encodes, Named, Unauthorized
<1>3. \A d \in Decodes[r] : d[1] \in {401, 404, 412}
  BY DEF DecisionRoutes, Decodes, WithdrawApplication_Decodes, AcceptApplication_Decodes,
     DenyApplication_Decodes, Coded, Refused
<1> HIDE DEF e
<1>4. Encode(r, e) = Reply(500, Fault)
  <2>1. <<e.name, e.type>> \notin Encodes[r]
    BY <1>1, <1>2
  <2> QED
    BY <1>1, <1>2, <2>1 DEF Encode
<1>5. /\ Reply(500, Fault).status = 500 /\ Reply(500, Fault) # NoReply
      /\ Reply(500, Fault).type = "goa"
  BY DEF Reply, Fault, NoReply
<1>6. <<500, "goa">> \notin Decodes[r]
  BY <1>3
<1>7. Decode(r, Reply(500, Fault), TRUE) = [Fault EXCEPT !.kind = "unreadable"]
  BY <1>5, <1>6, SuccessStatusIs DEF Decode
<1>8. Decode(r, Encode(r, e), TRUE).kind = "unreadable"
  <2>1. [Fault EXCEPT !.kind = "unreadable"].kind = "unreadable"
    BY DEF Fault
  <2> QED
    BY <1>4, <1>7, <2>1
<1>9. Undeclared(r, e)
  BY <1>1 DEF Undeclared
<1>10. Unheard(r, e)
  BY <1>1, <1>8, <1>9 DEF Unheard
<1> QED
  BY <1>10 DEF e

LEMMA ResultsAreNotErrors ==
  ASSUME NEW r \in Routes
  PROVE  (\A d \in Encodes[r] : d[2] # "result") /\ (\A d \in Decodes[r] : d[2] # "result")
<1> USE DEF Named, Coded, Unauthorized, Refused
<1>1. CASE r \in ItemRoutes
  BY <1>1 DEF ItemRoutes, Encodes, Decodes, SetItemStatus_Encodes, AssignItem_Encodes,
     UpdateItem_Encodes, SetItemStatus_Decodes, AssignItem_Decodes, UpdateItem_Decodes
<1>2. CASE r \in ApplicationRoutes
  BY <1>2 DEF ApplicationRoutes, DecisionRoutes, Encodes, Decodes,
     CreateApplication_Encodes, ReviseApplication_Encodes, WithdrawApplication_Encodes,
     AcceptApplication_Encodes, DenyApplication_Encodes, DeleteApplication_Encodes,
     CreateApplication_Decodes, ReviseApplication_Decodes, WithdrawApplication_Decodes,
     AcceptApplication_Decodes, DenyApplication_Decodes, DeleteApplication_Decodes
<1>3. CASE r \in TemplateRoutes
  BY <1>3 DEF TemplateRoutes, Encodes, Decodes,
     ListTemplates_Encodes, GetTemplate_Encodes, CreateTemplate_Encodes,
     UpdateTemplate_Encodes, PublishTemplate_Encodes, ArchiveTemplate_Encodes,
     ListTemplates_Decodes, GetTemplate_Decodes, CreateTemplate_Decodes,
     UpdateTemplate_Decodes, PublishTemplate_Decodes, ArchiveTemplate_Decodes
<1>4. CASE r \in ReaderRoutes \cup OpenRoutes
  BY <1>4 DEF ReaderRoutes, OpenRoutes, Encodes, Decodes, GetFormation_Encodes,
     GetFormationActivity_Encodes, GetFormation_Decodes, GetFormationActivity_Decodes,
     Livez_Decodes, Readyz_Encodes, Readyz_Decodes
<1> QED
  BY <1>1, <1>2, <1>3, <1>4, RoutesAre

\* A result is heard as a result by a client that can read its body.
LEMMA SuccessArrives ==
  ASSUME NEW r \in Routes
  PROVE  /\ Success.kind = "result" /\ ~Undeclared(r, Success)
         /\ Decode(r, Encode(r, Success), TRUE) = Success
<1>1. /\ Success.kind = "result" /\ Success.type = "result" /\ Success.name = ""
      /\ Success.reason = ""
  BY DEF Success
<1>3. <<Success.name, Success.type>> \notin Encodes[r]
  BY <1>1, ResultsAreNotErrors
<1>4. Encode(r, Success) = Reply(SuccessStatus(r), Success)
  BY <1>1, <1>3 DEF Encode
<1>5. PICK reply : reply = Reply(SuccessStatus(r), Success)
  OBVIOUS
<1>6. reply.status = SuccessStatus(r) /\ reply.type = "result"
  BY <1>1, <1>5 DEF Reply
<1>7. reply # NoReply /\ <<reply.status, reply.type>> \notin Decodes[r]
  <2>1. NoReply.status = 0 /\ SuccessStatus(r) \in {200, 201, 204}
    BY SuccessStatusIs DEF NoReply
  <2> QED
    BY <1>6, <2>1, ResultsAreNotErrors
<1>8. Decode(r, reply, TRUE) = Success
  BY <1>6, <1>7 DEF Decode
<1> QED
  BY <1>1, <1>4, <1>5, <1>8 DEF Undeclared
-----------------------------------------------------------------------------
(* What a method can say is what its route speaks.                         *)

\* The reason an error type may carry, as a refusal of that type.
Reasonable(t, reason) ==
  CASE t = "FormationError"   -> reason \in FormationReasons
    [] t = "ApplicationError" -> reason \in ApplicationReasons
    [] t = "TemplateError"    -> reason \in TemplateReasons
    [] OTHER                  -> TRUE

LEMMA SpokenArrives ==
  ASSUME NEW r \in Routes, NEW n \in Speaks(r), NEW reason, Reasonable(Tongue(r), reason),
         ~Undeclared(r, Refusal(Tongue(r), n, reason))
  PROVE  Arrives(r, Refusal(Tongue(r), n, reason))
<1>1. PICK t : t = Tongue(r)
  OBVIOUS
<1>2. PICK reply :
        reply = [status |-> StatusOf[n], type |-> t, name |-> n, reason |-> reason]
  OBVIOUS
<1>3. reply.type = t /\ reply.reason = reason
  BY <1>2
<1>4. Valid(reply)
  BY <1>1, <1>3 DEF Valid, Reasonable
<1> QED
  BY <1>1, <1>2, <1>4, TablesAgree, AgreedArrives

\* A decoded request of a method that parses an identifier has one.
Decoded == Requires[call.route] \subseteq call.carries

UidRoutes == {"revise_application", "delete_application", "get_template", "update_template",
              "publish_template", "archive_template"} \cup DecisionRoutes

LEMMA UidRequired == ASSUME NEW r \in UidRoutes PROVE "uid" \in Requires[r]
  BY DEF UidRoutes, DecisionRoutes, Requires, ReviseApplication_Requires,
     WithdrawApplication_Requires, AcceptApplication_Requires, DenyApplication_Requires,
     DeleteApplication_Requires, GetTemplate_Requires, UpdateTemplate_Requires,
     PublishTemplate_Requires, ArchiveTemplate_Requires

LEMMA OnlyRevisedAreCompared ==
  ASSUME NEW r \in Routes, "if_match" \in Requires[r]
  PROVE  r \in ItemRoutes \cup (ApplicationRoutes \ {"create_application"})
<1>1. r \notin ReaderRoutes \cup OpenRoutes \cup {"create_application"}
  BY DEF ReaderRoutes, OpenRoutes, Requires, GetFormation_Requires,
     GetFormationActivity_Requires, CreateApplication_Requires
<1>2. r \notin TemplateRoutes
  BY DEF TemplateRoutes, Requires, ListTemplates_Requires, GetTemplate_Requires,
     CreateTemplate_Requires, UpdateTemplate_Requires, PublishTemplate_Requires,
     ArchiveTemplate_Requires
<1> QED
  BY <1>1, <1>2, RoutesAre

LEMMA RaisedOnceDecoded ==
  ASSUME Decoded, call.route \in Routes, NEW e \in Raised
  PROVE  \/ e \in BeforeRevision(call.route) \cup AfterRevision(call.route)
         \/ /\ e = <<"VersionMismatch", "version_mismatch">>
            /\ call.route \in ItemRoutes \cup (ApplicationRoutes \ {"create_application"})
<1>1. PICK r \in Routes : r = call.route
  OBVIOUS
<1>2. "uid" \in call.carries \/ r \notin UidRoutes
  BY <1>1, UidRequired DEF Decoded
<1>3. Stale => r \in ItemRoutes \cup (ApplicationRoutes \ {"create_application"})
  BY <1>1, OnlyRevisedAreCompared DEF Stale
<1>4. CASE Stale
  <2>1. e \in BeforeRevision(r) \cup ReasonErr("VersionMismatch", {"version_mismatch"})
    BY <1>1, <1>2, <1>4 DEF Raised, UidRoutes
  <2> QED
    BY <1>1, <1>3, <1>4, <2>1 DEF ReasonErr
<1>5. CASE ~Stale
  BY <1>1, <1>2, <1>5 DEF Raised, UidRoutes
<1> QED
  BY <1>4, <1>5

LEMMA ItemsSpeak ==
  ASSUME Decoded, call.route \in ItemRoutes, NEW e \in Raised
  PROVE  Arrives(call.route, Mapped(call.route, e))
<1>1. PICK r \in ItemRoutes : r = call.route
  OBVIOUS
<1>2. r \in Routes
  BY RoutesAre
<1>3. r \notin ApplicationRoutes /\ r \notin TemplateRoutes /\ r \notin ReaderRoutes
  BY DEF ItemRoutes, ApplicationRoutes, DecisionRoutes, TemplateRoutes, ReaderRoutes
<1>4. BeforeRevision(r) =
        ReasonErr("NotFound", {"not_found", "unknown_item_key"})
           \cup ReasonErr("Conflict", {"checklist_read_only"})
  BY <1>3 DEF BeforeRevision, ReaderRoutes
<1>5. AfterRevision(r) = ItemPayload(r)
  BY <1>3 DEF AfterRevision
<1>6. e[1] \in EveryName /\ e[2] \in FormationReasons
  <2>1. CASE e = <<"VersionMismatch", "version_mismatch">>
    BY <2>1 DEF EveryName, FormationReasons
  <2>2. CASE e \in BeforeRevision(r)
    BY <1>4, <2>2 DEF ReasonErr, EveryName, FormationReasons
  <2>3. CASE e \in ItemPayload(r)
    <3>1. CASE r = "set_item_status"
      BY <2>3, <3>1 DEF ItemPayload, ReasonErr, EveryName, FormationReasons
    <3>2. CASE r = "assign_item"
      BY <2>3, <3>2 DEF ItemPayload, ReasonErr, EveryName, FormationReasons
    <3>3. CASE r = "update_item"
      BY <2>3, <3>3 DEF ItemPayload, ReasonErr, EveryName, FormationReasons
    <3> QED
      BY <3>1, <3>2, <3>3 DEF ItemRoutes
  <2> QED
    BY <1>1, <1>2, <1>5, <2>1, <2>2, <2>3, RaisedOnceDecoded
<1>7. Tongue(r) = "FormationError" /\ Speaks(r) = EveryName
  BY <1>3 DEF Tongue, Speaks, ItemRoutes, DecisionRoutes, ReaderRoutes
<1>8. Mapped(r, e) = Refusal(Tongue(r), e[1], e[2])
  <2>1. e[2] # ""
    BY <1>6 DEF FormationReasons
  <2> QED
    BY <1>3, <1>6, <1>7, <2>1 DEF Mapped, MapReasonError, EveryName
<1>9. ~Undeclared(r, Mapped(r, e))
  BY DEF Undeclared, ItemRoutes, DecisionRoutes
<1> QED
  BY <1>1, <1>2, <1>6, <1>7, <1>8, <1>9, SpokenArrives DEF Reasonable

LEMMA ReadersSpeak ==
  ASSUME Decoded, call.route \in ReaderRoutes, NEW e \in Raised
  PROVE  Arrives(call.route, Mapped(call.route, e))
<1>1. PICK r \in ReaderRoutes : r = call.route
  OBVIOUS
<1>2. r \in Routes
  BY RoutesAre
<1>3. r \notin ApplicationRoutes /\ r \notin TemplateRoutes /\ r \notin ItemRoutes
  BY DEF ItemRoutes, ApplicationRoutes, DecisionRoutes, TemplateRoutes, ReaderRoutes
<1>4. BeforeRevision(r) = Bare("NotFound") /\ AfterRevision(r) = {}
  BY <1>3 DEF BeforeRevision, AfterRevision, ReaderRoutes
<1>5. e = <<"NotFound", "">>
  BY <1>1, <1>2, <1>3, <1>4, RaisedOnceDecoded DEF Bare
<1>6. Tongue(r) = "NotFoundError" /\ "NotFound" \in Speaks(r)
  BY <1>3 DEF Tongue, Speaks, ReaderRoutes, DecisionRoutes
<1>7. Mapped(r, e) = Refusal(Tongue(r), "NotFound", "")
  BY <1>3, <1>5, <1>6 DEF Mapped, ReaderError
<1>8. ~Undeclared(r, Mapped(r, e))
  BY DEF Undeclared, ReaderRoutes, DecisionRoutes
<1> QED
  BY <1>1, <1>2, <1>6, <1>7, <1>8, SpokenArrives DEF Reasonable
LEMMA BareHasNoReason ==
  ASSUME NEW e, e[2] # ""
  PROVE  /\ e # <<"NotFound", "">> /\ e # <<"Conflict", "">>
         /\ e # <<"BadRequest", "">> /\ e # <<"VersionMismatch", "">>
<1>1. /\ <<"NotFound", "">>[2] = "" /\ <<"Conflict", "">>[2] = ""
      /\ <<"BadRequest", "">>[2] = "" /\ <<"VersionMismatch", "">>[2] = ""
  OBVIOUS
<1> QED
  BY <1>1

LEMMA ApplicationsSpeak ==
  ASSUME Decoded, call.route \in ApplicationRoutes, NEW e \in Raised
  PROVE  \/ Arrives(call.route, Mapped(call.route, e))
         \/ Unheard(call.route, Mapped(call.route, e))
<1>1. PICK r \in ApplicationRoutes : r = call.route
  OBVIOUS
<1>2. r \in Routes
  BY RoutesAre
<1>3. r \notin ItemRoutes /\ r \notin TemplateRoutes /\ r \notin ReaderRoutes
  BY DEF ItemRoutes, ApplicationRoutes, DecisionRoutes, TemplateRoutes, ReaderRoutes
<1>4. AfterRevision(r) = ApplicationPayload(r)
  BY <1>3 DEF AfterRevision
<1>5. BeforeRevision(r) = IF r = "create_application" THEN {} ELSE Bare("NotFound")
  BY <1>3 DEF BeforeRevision, ReaderRoutes
<1>6. Tongue(r) = "ApplicationError"
  BY <1>3 DEF Tongue
\* A reason of the declared kind arrives.
<1>7. ASSUME NEW f, WithApplicationReason(e) = f, f[1] \in Speaks(r),
             f[2] \in ApplicationReasons,
             f[1] \in {"NotFound", "VersionMismatch", "BadRequest"},
             r \notin DecisionRoutes \/ f[2] # "application_payload_too_large"
      PROVE  Arrives(r, Mapped(r, e))
  <2>1. f[2] # ""
    BY <1>7 DEF ApplicationReasons
  <2>2. MapApplicationError(f) = Refusal(Tongue(r), f[1], f[2])
    BY <1>6, <1>7, <2>1 DEF MapApplicationError
  <2>3. Mapped(r, e) = Refusal(Tongue(r), f[1], f[2])
    BY <1>3, <1>7, <2>2 DEF Mapped
  <2>4. ~Undeclared(r, Refusal(Tongue(r), f[1], f[2]))
    BY <1>7 DEF Undeclared, Refusal
  <2> QED
    BY <1>2, <1>6, <1>7, <2>3, <2>4, SpokenArrives DEF Reasonable
<1>8. \/ e \in BeforeRevision(r) \cup ApplicationPayload(r)
      \/ e = <<"VersionMismatch", "version_mismatch">> /\ r # "create_application"
  BY <1>1, <1>2, <1>3, <1>4, RaisedOnceDecoded
<1>9. CASE r = "create_application"
  <2>1. Speaks(r) = {"BadRequest"}
    BY <1>9 DEF Speaks, ItemRoutes, DecisionRoutes, ReaderRoutes
  <2>2. e \in ApplicationPayload(r)
    BY <1>5, <1>8, <1>9
  <2>3. e[1] = "BadRequest" /\ e[2] \in ApplicationReasons /\ e = <<e[1], e[2]>>
    BY <1>9, <2>2 DEF ApplicationPayload, AnswersInvalid, ReasonErr, ApplicationReasons,
       DecisionRoutes
  <2>4. WithApplicationReason(e) = e
    <3>1. e[2] # ""
      BY <2>3 DEF ApplicationReasons
    <3>2. e # <<"VersionMismatch", "">> /\ e # <<"NotFound", "">>
      BY <3>1, BareHasNoReason
    <3> QED
      BY <3>2 DEF WithApplicationReason
  <2>5. r \notin DecisionRoutes
    BY <1>9 DEF DecisionRoutes
  <2> QED
    BY <1>1, <1>7, <2>1, <2>3, <2>4, <2>5
\* On the other routes a missing row and a stale revision are given their reasons.
<1>10. ASSUME r # "create_application", e = <<"NotFound", "">>
       PROVE  Arrives(r, Mapped(r, e))
  <2>1. WithApplicationReason(e) = <<"NotFound", "not_found">>
    BY <1>10 DEF WithApplicationReason
  <2>2. "NotFound" \in Speaks(r)
    BY <1>10 DEF Speaks, ApplicationRoutes, ItemRoutes, DecisionRoutes, ReaderRoutes
  <2> QED
    BY <1>7, <2>1, <2>2 DEF ApplicationReasons
<1>11. ASSUME r # "create_application", e = <<"VersionMismatch", "version_mismatch">>
       PROVE  Arrives(r, Mapped(r, e))
  <2>1. WithApplicationReason(e) = <<"VersionMismatch", "version_mismatch">>
    BY <1>11 DEF WithApplicationReason
  <2>2. "VersionMismatch" \in Speaks(r)
    BY <1>11 DEF Speaks, ApplicationRoutes, ItemRoutes, DecisionRoutes, ReaderRoutes
  <2> QED
    BY <1>7, <2>1, <2>2 DEF ApplicationReasons
<1>12. CASE r = "revise_application"
  <2>1. CASE e \in ApplicationPayload(r)
    <3>1. e[1] = "BadRequest" /\ e[2] \in ApplicationReasons /\ e = <<e[1], e[2]>>
      BY <1>12, <2>1 DEF ApplicationPayload, AnswersInvalid, ReasonErr, ApplicationReasons,
         DecisionRoutes
    <3>2. WithApplicationReason(e) = e
      <4>1. e[2] # ""
        BY <3>1 DEF ApplicationReasons
      <4>2. e # <<"VersionMismatch", "">> /\ e # <<"NotFound", "">>
        BY <4>1, BareHasNoReason
      <4> QED
        BY <4>2 DEF WithApplicationReason
    <3>3. r \notin DecisionRoutes /\ "BadRequest" \in Speaks(r)
      BY <1>12 DEF DecisionRoutes, Speaks, ItemRoutes, ReaderRoutes
    <3> QED
      BY <1>1, <1>7, <3>1, <3>2, <3>3
  <2> QED
    BY <1>1, <1>5, <1>8, <1>10, <1>11, <1>12, <2>1 DEF Bare
<1>13. CASE r = "delete_application"
  <2>1. ApplicationPayload(r) = {}
    BY <1>13 DEF ApplicationPayload, DecisionRoutes
  <2> QED
    BY <1>1, <1>5, <1>8, <1>10, <1>11, <1>13, <2>1 DEF Bare
\* A decision may push the application past its envelope, which no design declares.
<1>14. CASE r \in DecisionRoutes
  <2>1. ApplicationPayload(r) = TooLarge /\ r # "create_application"
    BY <1>14 DEF ApplicationPayload, DecisionRoutes
  <2>2. CASE e = <<"BadRequest", "application_payload_too_large">>
    <3>1. WithApplicationReason(e) = e
      BY <2>2 DEF WithApplicationReason
    <3>2. MapApplicationError(e) =
            Refusal("ApplicationError", "BadRequest", "application_payload_too_large")
      BY <2>2 DEF MapApplicationError
    <3>3. Mapped(r, e) =
            Refusal("ApplicationError", "BadRequest", "application_payload_too_large")
      BY <1>3, <3>1, <3>2 DEF Mapped
    <3> QED
      BY <1>1, <1>14, <3>3, TooLargeIsUnheard
  <2> QED
    BY <1>1, <1>5, <1>8, <1>10, <1>11, <2>1, <2>2 DEF Bare, TooLarge, ReasonErr
<1> QED
  BY <1>9, <1>12, <1>13, <1>14 DEF ApplicationRoutes

LEMMA TemplatesSpeak ==
  ASSUME Decoded, call.route \in TemplateRoutes, NEW e \in Raised
  PROVE  Arrives(call.route, Mapped(call.route, e))
<1>1. PICK r \in TemplateRoutes : r = call.route
  OBVIOUS
<1>2. r \in Routes
  BY RoutesAre
<1>3. r \notin ItemRoutes /\ r \notin ApplicationRoutes /\ r \notin ReaderRoutes
  BY DEF ItemRoutes, ApplicationRoutes, DecisionRoutes, TemplateRoutes, ReaderRoutes
<1>4. AfterRevision(r) = TemplateState(r) /\ BeforeRevision(r) = {}
  BY <1>3 DEF AfterRevision, BeforeRevision, ReaderRoutes
<1>5. e \in TemplateState(r)
  BY <1>1, <1>2, <1>3, <1>4, RaisedOnceDecoded
<1>6. Tongue(r) = "TemplateError"
  BY <1>3 DEF Tongue
<1>7. r \notin DecisionRoutes
  BY <1>3 DEF ApplicationRoutes
<1>8. ASSUME NEW f, WithTemplateReason(e) = f, f[1] \in Speaks(r), f[2] \in TemplateReasons,
             f[1] \in {"NotFound", "Conflict", "BadRequest"}
      PROVE  Arrives(r, Mapped(r, e))
  <2>1. f[2] # ""
    BY <1>8 DEF TemplateReasons
  <2>2. MapTemplateError(f) = Refusal(Tongue(r), f[1], f[2])
    BY <1>6, <1>8, <2>1 DEF MapTemplateError
  <2>3. Mapped(r, e) = Refusal(Tongue(r), f[1], f[2])
    BY <1>3, <1>8, <2>2 DEF Mapped
  <2>4. ~Undeclared(r, Refusal(Tongue(r), f[1], f[2]))
    BY <1>7 DEF Undeclared
  <2> QED
    BY <1>2, <1>6, <1>8, <2>3, <2>4, SpokenArrives DEF Reasonable
\* What the store leaves bare is given the reason of its kind.
<1>9. CASE e = <<"NotFound", "">> /\ r = "update_template"
  <2>1. WithTemplateReason(e) = <<"NotFound", "not_found">>
    BY <1>9 DEF WithTemplateReason
  <2>2. "NotFound" \in Speaks(r)
    BY <1>9 DEF Speaks, ItemRoutes, DecisionRoutes, ReaderRoutes
  <2> QED
    BY <1>1, <1>8, <2>1, <2>2 DEF TemplateReasons
<1>10. CASE e = <<"BadRequest", "">> /\ r = "update_template"
  <2>1. WithTemplateReason(e) = <<"BadRequest", "no_fields_to_update">>
    BY <1>10 DEF WithTemplateReason
  <2>2. "BadRequest" \in Speaks(r)
    BY <1>10 DEF Speaks, ItemRoutes, DecisionRoutes, ReaderRoutes
  <2> QED
    BY <1>1, <1>8, <2>1, <2>2 DEF TemplateReasons
<1>11. ASSUME NEW n, NEW reason, e = <<n, reason>>, n \in Speaks(r),
              reason \in TemplateReasons, n \in {"NotFound", "Conflict", "BadRequest"}
       PROVE  Arrives(r, Mapped(r, e))
  <2>1. e[1] = n /\ e[2] = reason /\ reason # ""
    BY <1>11 DEF TemplateReasons
  <2>2. WithTemplateReason(e) = e
    <3>1. /\ e # <<"NotFound", "">> /\ e # <<"Conflict", "">>
          /\ e # <<"BadRequest", "">>
      BY <2>1, BareHasNoReason
    <3> QED
      BY <3>1 DEF WithTemplateReason
  <2> QED
    BY <1>8, <1>11, <2>1, <2>2
<1>12. CASE r = "list_templates"
  BY <1>5, <1>12 DEF TemplateState
<1>13. CASE r = "get_template"
  <2>1. e = <<"NotFound", "not_found">>
    BY <1>5, <1>13 DEF TemplateState, ReasonErr
  <2>2. "NotFound" \in Speaks(r)
    BY <1>13 DEF Speaks, ItemRoutes, DecisionRoutes, ReaderRoutes
  <2> QED
    BY <1>1, <1>11, <2>1, <2>2 DEF TemplateReasons
<1>14. CASE r = "create_template"
  <2>1. e \in {<<"BadRequest", "invalid_sections">>, <<"Conflict", "template_already_exists">>}
    BY <1>5, <1>14 DEF TemplateState, ReasonErr
  <2>2. "BadRequest" \in Speaks(r) /\ "Conflict" \in Speaks(r)
    BY <1>14 DEF Speaks, ItemRoutes, DecisionRoutes, ReaderRoutes
  <2> QED
    BY <1>1, <1>11, <2>1, <2>2 DEF TemplateReasons
<1>15. CASE r = "update_template"
  <2>1. \/ e \in {<<"BadRequest", "invalid_sections">>, <<"Conflict", "template_not_draft">>}
        \/ e \in {<<"BadRequest", "">>, <<"NotFound", "">>}
    BY <1>5, <1>15 DEF TemplateState, ReasonErr, Bare
  <2>2. "BadRequest" \in Speaks(r) /\ "Conflict" \in Speaks(r)
    BY <1>15 DEF Speaks, ItemRoutes, DecisionRoutes, ReaderRoutes
  <2> QED
    BY <1>1, <1>9, <1>10, <1>11, <1>15, <2>1, <2>2 DEF TemplateReasons
<1>16. CASE r \in {"publish_template", "archive_template"}
  <2>1. e \in {<<"Conflict", "template_not_draft">>, <<"Conflict", "template_already_archived">>}
    BY <1>5, <1>16 DEF TemplateState, ReasonErr
  <2>2. "Conflict" \in Speaks(r)
    BY <1>16 DEF Speaks, ItemRoutes, DecisionRoutes, ReaderRoutes
  <2> QED
    BY <1>1, <1>11, <2>1, <2>2 DEF TemplateReasons
<1> QED
  BY <1>12, <1>13, <1>14, <1>15, <1>16 DEF TemplateRoutes
-----------------------------------------------------------------------------
(* Every body a method builds is one its client reads.                     *)

LEMMA ObjectIs ==
  ASSUME NEW type, NEW fields
  PROVE  Object(type, fields).type = type /\ Object(type, fields).fields = fields
  BY DEF Object

\* What the server copies of an object is what the object has, under the copied names.
LEMMA BodyIs ==
  ASSUME NEW o, NEW copied, Copied[o.type] = copied
  PROVE  Body(o) = {f \in o.fields : f[1] \in copied}
  BY DEF Body

LEMMA HasByField ==
  ASSUME NEW body, NEW required, \A x \in required : \E v : <<x, v>> \in body
  PROVE  Has(body, required)
<1> SUFFICES ASSUME NEW x \in required PROVE x \in {f[1] : f \in body}
  BY DEF Has
<1>1. PICK v : <<x, v>> \in body
  OBVIOUS
<1>2. <<x, v>>[1] = x
  OBVIOUS
<1> QED
  BY <1>1, <1>2

LEMMA RowIs ==
  ASSUME NEW i \in Rows
  PROVE  /\ i.source \in {"manual", "platform"}
         /\ i.audience \in {"internal", "external", "both"}
         /\ i.status \in Statuses /\ i.subItem \in Statuses
<1>1. PICK t \in TemplateItems, s \in Statuses, u \in Statuses :
        i = Moved(NewItemFromTemplate(t), s, u)
  BY DEF Rows
<1>2. t.source \in {"manual", "platform"} /\ t.audience \in {"", "internal", "external", "both"}
  BY DEF TemplateItems
<1>3. PICK n : n = [source |-> t.source, audience |-> t.audience,
                    status |-> "not_started", subItem |-> "not_started"]
  OBVIOUS
<1>4. NewItemFromTemplate(t) = [n EXCEPT !.audience = IF @ = "" THEN "both" ELSE @]
  BY <1>3 DEF NewItemFromTemplate, ApplyInsertDefaults
<1>5. PICK m : m = NewItemFromTemplate(t)
  OBVIOUS
<1>6. m = [source |-> t.source, audience |-> IF t.audience = "" THEN "both" ELSE t.audience,
           status |-> "not_started", subItem |-> "not_started"]
  BY <1>3, <1>4, <1>5
<1>7. i = [m EXCEPT !.status = s, !.subItem = u]
  BY <1>1, <1>5 DEF Moved
<1>8. /\ i.source = t.source /\ i.audience = IF t.audience = "" THEN "both" ELSE t.audience
      /\ i.status = s /\ i.subItem = u
  BY <1>6, <1>7
<1> QED
  BY <1>2, <1>8

LEMMA ItemReadable == ASSUME NEW i \in Rows PROVE Readable(ItemToWire(i))
<1> DEFINE plain == {"uid", "item_key", "section_key", "position", "title", "gate",
                     "requires_writer", "is_required", "version", "available_actions"}
           chosen == {<<"status_source", i.source>>, <<"checklist_type", i.audience>>,
                      <<"status", i.status>>, <<"sub_items.status", i.subItem>>}
           o == ItemToWire(i)
           body == Body(o)
<1>1. o.type = "item" /\ o.fields = Set(plain) \cup chosen
  BY ObjectIs DEF ItemToWire
<1>2. Copied["item"] = ItemBody
  BY DEF Copied
<1> HIDE DEF o
<1>3. body = {f \in Set(plain) \cup chosen : f[1] \in ItemBody}
  BY <1>1, <1>2, BodyIs
<1> HIDE DEF body
<1>4. \A x \in plain : <<x, "set">> \in body
  <2> SUFFICES ASSUME NEW x \in plain PROVE <<x, "set">> \in body
    OBVIOUS
  <2>1. <<x, "set">> \in Set(plain)
    BY DEF Set
  <2>2. x \in ItemBody
    BY DEF ItemBody
  <2> QED
    BY <1>3, <2>1, <2>2
<1>5. chosen \subseteq body
  BY <1>3 DEF ItemBody
<1>6. \A f \in body : (\E x \in plain : f = <<x, "set">>) \/ f \in chosen
  BY <1>3 DEF Set
<1>7. Has(body, ItemRequired)
  <2> SUFFICES ASSUME NEW x \in ItemRequired PROVE \E v : <<x, v>> \in body
    BY HasByField
  <2>1. x \in plain \/ x \in {"status_source", "checklist_type", "status"}
    BY DEF ItemRequired
  <2> QED
    BY <1>4, <1>5, <2>1
<1>8. Knows(body, "status_source", {"manual", "platform"})
  BY <1>6, RowIs DEF Knows
<1>9. Knows(body, "checklist_type", {"internal", "external", "both"})
  BY <1>6, RowIs DEF Knows
<1>10. Knows(body, "status", Statuses)
  BY <1>6, RowIs DEF Knows
<1>11. Knows(body, "sub_items.status", Statuses)
  BY <1>6, RowIs DEF Knows
<1> HIDE DEF plain, chosen
<1>12. \A f \in DOMAIN ItemValues : Knows(body, f, ItemValues[f])
  <2>1. /\ DOMAIN ItemValues = {"status_source", "checklist_type", "status"}
        /\ ItemValues["status_source"] = {"manual", "platform"}
        /\ ItemValues["checklist_type"] = {"internal", "external", "both"}
        /\ ItemValues["status"] = Statuses
    BY DEF ItemValues, Statuses
  <2> QED
    BY <1>8, <1>9, <1>10, <2>1
<1>13. SubItemValues = Statuses
  BY DEF SubItemValues, Statuses
<1>14. Readable(o)
  BY <1>1, <1>7, <1>11, <1>12, <1>13 DEF Readable, body
<1> QED
  BY <1>14 DEF o

LEMMA ChecklistReadable ==
  ASSUME NEW l \in Lifecycles PROVE Readable(ChecklistToWire(l))
<1> DEFINE plain == {"project_uid", "template_uid", "template_version", "sections", "items",
                     "progress", "is_activating"}
           o == ChecklistToWire(l)
           body == Body(o)
<1>1. o.type = "checklist" /\ o.fields = Set(plain) \cup {<<"lifecycle", l>>}
  BY ObjectIs DEF ChecklistToWire
<1>2. Copied["checklist"] = ChecklistBody
  BY DEF Copied
<1> HIDE DEF o
<1>3. body = {f \in Set(plain) \cup {<<"lifecycle", l>>} : f[1] \in ChecklistBody}
  BY <1>1, <1>2, BodyIs
<1> HIDE DEF body
<1>4. \A x \in plain : <<x, "set">> \in body
  <2> SUFFICES ASSUME NEW x \in plain PROVE <<x, "set">> \in body
    OBVIOUS
  <2>1. <<x, "set">> \in Set(plain)
    BY DEF Set
  <2>2. x \in ChecklistBody
    BY DEF ChecklistBody
  <2> QED
    BY <1>3, <2>1, <2>2
<1>5. <<"lifecycle", l>> \in body
  BY <1>3 DEF ChecklistBody
<1>6. \A f \in body : (\E x \in plain : f = <<x, "set">>) \/ f = <<"lifecycle", l>>
  BY <1>3 DEF Set
<1>7. Has(body, ChecklistRequired)
  <2> SUFFICES ASSUME NEW x \in ChecklistRequired PROVE \E v : <<x, v>> \in body
    BY HasByField
  <2>1. x \in plain \/ x = "lifecycle"
    BY DEF ChecklistRequired
  <2> QED
    BY <1>4, <1>5, <2>1
<1>8. Knows(body, "lifecycle", LifecycleValues)
  BY <1>6 DEF Knows, Lifecycles, LifecycleValues
<1>9. Readable(o)
  BY <1>1, <1>7, <1>8 DEF Readable, body
<1> QED
  BY <1>9 DEF o

LEMMA EntryReadable ==
  ASSUME NEW b \in {"user", "system"} PROVE Readable(ActivityToWire(b))
<1> DEFINE plain == {"ulid", "actor", "action", "at"}
           o == ActivityToWire(b)
           body == Body(o)
<1>1. o.type = "entry" /\ o.fields = Set(plain) \cup {<<"set_by", b>>}
  BY ObjectIs DEF ActivityToWire
<1>2. Copied["entry"] = EntryBody
  BY DEF Copied
<1> HIDE DEF o
<1>3. body = {f \in Set(plain) \cup {<<"set_by", b>>} : f[1] \in EntryBody}
  BY <1>1, <1>2, BodyIs
<1> HIDE DEF body
<1>4. \A x \in plain : <<x, "set">> \in body
  <2> SUFFICES ASSUME NEW x \in plain PROVE <<x, "set">> \in body
    OBVIOUS
  <2>1. <<x, "set">> \in Set(plain)
    BY DEF Set
  <2>2. x \in EntryBody
    BY DEF EntryBody
  <2> QED
    BY <1>3, <2>1, <2>2
<1>5. <<"set_by", b>> \in body
  BY <1>3 DEF EntryBody
<1>6. \A f \in body : (\E x \in plain : f = <<x, "set">>) \/ f = <<"set_by", b>>
  BY <1>3 DEF Set
<1>7. Has(body, EntryRequired)
  <2> SUFFICES ASSUME NEW x \in EntryRequired PROVE \E v : <<x, v>> \in body
    BY HasByField
  <2>1. x \in plain \/ x = "set_by"
    BY DEF EntryRequired
  <2> QED
    BY <1>4, <1>5, <2>1
<1>8. Knows(body, "set_by", SetByValues)
  BY <1>6 DEF Knows, SetByValues
<1>9. Readable(o)
  BY <1>1, <1>7, <1>8 DEF Readable, body
<1> QED
  BY <1>9 DEF o

\* The three types whose every field is always set.
LEMMA PlainReadable == Readable(ActivityPage) /\ Readable(ApplicationToWire)
<1>1. Readable(ActivityPage)
  <2>1. ActivityPage.type = "page" /\ ActivityPage.fields = Set({"entries"})
    BY ObjectIs DEF ActivityPage
  <2>2. Copied["page"] = PageBody
    BY DEF Copied
  <2>3. Body(ActivityPage) = {f \in Set({"entries"}) : f[1] \in PageBody}
    BY <2>1, <2>2, BodyIs
  <2>4. <<"entries", "set">> \in Body(ActivityPage)
    BY <2>3 DEF Set, PageBody
  <2>5. Has(Body(ActivityPage), PageRequired)
    BY <2>4, HasByField DEF PageRequired
  <2> QED
    BY <2>1, <2>5 DEF Readable
<1>2. Readable(ApplicationToWire)
  <2>1. ApplicationToWire.type = "application"
        /\ ApplicationToWire.fields = Set(ApplicationRequired)
    BY ObjectIs DEF ApplicationToWire, ApplicationRequired
  <2>2. Copied["application"] = ApplicationRequired
    BY DEF Copied, ApplicationBody, ApplicationRequired
  <2>3. Body(ApplicationToWire) = {f \in Set(ApplicationRequired) : f[1] \in ApplicationRequired}
    BY <2>1, <2>2, BodyIs
  <2>4. \A x \in ApplicationRequired : <<x, "set">> \in Set(ApplicationRequired)
    BY DEF Set
  <2>5. \A x \in ApplicationRequired : <<x, "set">> \in Body(ApplicationToWire)
    BY <2>3, <2>4
  <2>6. Has(Body(ApplicationToWire), ApplicationRequired)
    BY <2>5, HasByField
  <2> QED
    BY <2>1, <2>6 DEF Readable
<1> QED
  BY <1>1, <1>2

LEMMA TemplateReadable ==
  ASSUME NEW s \in States PROVE Readable(TemplateToWire(s))
<1> DEFINE plain == {"uid", "name", "template_version", "priority", "sections", "created_at",
                     "updated_at"}
           chosen == {<<"state", s>>, <<"match", "always">>}
           o == TemplateToWire(s)
           body == Body(o)
<1>1. o.type = "template" /\ o.fields = Set(plain) \cup chosen
  BY ObjectIs DEF TemplateToWire
<1>2. Copied["template"] = TemplateBody
  BY DEF Copied
<1> HIDE DEF o
<1>3. body = {f \in Set(plain) \cup chosen : f[1] \in TemplateBody}
  BY <1>1, <1>2, BodyIs
<1> HIDE DEF body
<1>4. \A x \in plain : <<x, "set">> \in body
  <2> SUFFICES ASSUME NEW x \in plain PROVE <<x, "set">> \in body
    OBVIOUS
  <2>1. <<x, "set">> \in Set(plain)
    BY DEF Set
  <2>2. x \in TemplateBody
    BY DEF TemplateBody
  <2> QED
    BY <1>3, <2>1, <2>2
<1>5. chosen \subseteq body
  BY <1>3 DEF TemplateBody
<1>6. \A f \in body : (\E x \in plain : f = <<x, "set">>) \/ f \in chosen
  BY <1>3 DEF Set
<1>7. Has(body, TemplateRequired)
  <2> SUFFICES ASSUME NEW x \in TemplateRequired PROVE \E v : <<x, v>> \in body
    BY HasByField
  <2>1. x \in plain \/ x \in {"state", "match"}
    BY DEF TemplateRequired
  <2> QED
    BY <1>4, <1>5, <2>1
<1>8. Knows(body, "state", States)
  BY <1>6 DEF Knows
<1>9. Knows(body, "match", {"always"})
  BY <1>6 DEF Knows
<1> HIDE DEF plain, chosen
<1>10. \A f \in DOMAIN TemplateValues : Knows(body, f, TemplateValues[f])
  <2>1. /\ DOMAIN TemplateValues = {"state", "match"}
        /\ TemplateValues["state"] = States /\ TemplateValues["match"] = {"always"}
    BY DEF TemplateValues, States
  <2> QED
    BY <1>8, <1>9, <2>1
<1>11. Readable(o)
  BY <1>1, <1>7, <1>10 DEF Readable, body
<1> QED
  BY <1>11 DEF o
\* Whatever a method builds - with items or entries, or without - its client reads all of it.
LEMMA BuiltIsReadable ==
  ASSUME NEW r \in Routes, NEW body \in Built(r), NEW o \in body PROVE Readable(o)
<1> USE DEF Some
<1>1. CASE r = "get_formation"
  <2> DEFINE items == {ItemToWire(i) : i \in Rows}
  <2>1. Built(r) = {{ChecklistToWire(l)} \cup s : l \in Lifecycles, s \in Some(items)}
    BY <1>1 DEF Built
  <2>2. \A i \in items : Readable(i)
    BY ItemReadable
  <2> HIDE DEF items
  <2>3. PICK l \in Lifecycles, s \in Some(items) : body = {ChecklistToWire(l)} \cup s
    BY <2>1
  <2>4. o = ChecklistToWire(l) \/ o \in items
    BY <2>3
  <2> QED
    BY <2>2, <2>4, ChecklistReadable
<1>2. CASE r = "get_formation_activity"
  <2> DEFINE entries == {ActivityToWire(b) : b \in {"user", "system"}}
  <2>1. Built(r) = {{ActivityPage} \cup s : s \in Some(entries)}
    BY <1>2 DEF Built
  <2>2. \A e \in entries : Readable(e)
    BY EntryReadable
  <2> HIDE DEF entries
  <2>3. PICK s \in Some(entries) : body = {ActivityPage} \cup s
    BY <2>1
  <2>4. o = ActivityPage \/ o \in entries
    BY <2>3
  <2> QED
    BY <2>2, <2>4, PlainReadable
<1>3. CASE r \in ItemRoutes
  <2>1. Built(r) = {{ItemToWire(i)} : i \in Rows}
    BY <1>3 DEF Built, ItemRoutes
  <2> QED
    BY <2>1, ItemReadable
<1>4. CASE r \in ApplicationRoutes \ {"delete_application"}
  <2>1. Built(r) = {{ApplicationToWire}}
    BY <1>4 DEF Built, ApplicationRoutes, DecisionRoutes
  <2> QED
    BY <2>1, PlainReadable
<1>5. CASE r = "list_templates"
  <2>1. Built(r) = Some({TemplateToWire(s) : s \in States})
    BY <1>5 DEF Built
  <2>2. PICK s \in States : o = TemplateToWire(s)
    BY <2>1
  <2> QED
    BY <2>2, TemplateReadable
<1>6. CASE r \in TemplateRoutes \ {"list_templates"}
  <2>1. Built(r) = {{TemplateToWire(s)} : s \in States}
    BY <1>6 DEF Built, TemplateRoutes
  <2> QED
    BY <2>1, TemplateReadable
<1>7. CASE r \in OpenRoutes \cup {"delete_application"}
  <2>1. Built(r) = {{}}
    BY <1>7 DEF Built, OpenRoutes
  <2> QED
    BY <2>1
<1> QED
  BY <1>1, <1>2, <1>3, <1>4, <1>5, <1>6, <1>7, RoutesAre DEF ReaderRoutes

LEMMA ReadingsAre == ASSUME NEW r \in Routes, NEW b \in Readings[r] PROVE b = TRUE
<1> DEFINE read(body) == \A o \in body : Readable(o)
<1>1. b \in {read(body) : body \in Built(r)}
  BY DEF Readings
<1>2. \A body \in Built(r) : read(body) = TRUE
  BY BuiltIsReadable
<1> HIDE DEF read
<1> QED
  BY <1>1, <1>2
-----------------------------------------------------------------------------
(* From what is said to what is heard.                                     *)

\* What a call has said so far, and what became of it: a refusal is one the tables carry,
\* an answer is the encoding of what was said, and what is heard is its decoding.
Spoken ==
  /\ call.route \in Routes
  /\ call.step \notin {"replied", "heard"} => call.said = Nothing
  /\ call.step = "decoded" => Decoded
  /\ call.step = "admitted" => Decoded /\ call.route \in Secured
  /\ call.said.kind = "malformed" => ~Decoded
  /\ call.said.kind = "refusal" =>
       Arrives(call.route, call.said) \/ Unheard(call.route, call.said)
  /\ call.said.kind = "result" => call.said = Success
  /\ call.said.kind \in {"refusal", "result"} =>
       call.reply = Encode(call.route, call.said)
  /\ call.step = "heard" => call.heard = Decode(call.route, call.reply, TRUE)

LEMMA KindsAre ==
  /\ Nothing.kind = "none" /\ Fault.kind = "fault" /\ Malformed.kind = "malformed"
  /\ Success.kind = "result"
  /\ \A t, n, reason : Refusal(t, n, reason).kind = "refusal"
  BY DEF Nothing, Fault, Malformed, Success, Refusal

\* What an answer may be: nothing of note, a result, or a refusal the tables carry.
Sayable(r, e) ==
  \/ e \in {Success, Fault}
  \/ e.kind = "refusal" /\ (Arrives(r, e) \/ Unheard(r, e))

LEMMA AnswerSpoken ==
  ASSUME Shaped, Spoken, NEW e, Sayable(call.route, e) \/ (e = Malformed /\ ~Decoded),
         Answer(e, "replied")
  PROVE  Spoken'
<1>1. /\ call'.step = "replied" /\ call'.said = e /\ call'.reply = Encode(call.route, e)
      /\ call'.route = call.route /\ call'.carries = call.carries
  BY DEF Answer, Shaped, Fields
<1>2. Decoded' = Decoded
  BY <1>1 DEF Decoded
<1> QED
  BY <1>1, <1>2, KindsAre DEF Spoken, Sayable

\* What is refused for its token, by the probe and by the method.
LEMMA RejectionArrives ==
  ASSUME NEW r \in Secured PROVE NotAuthorized.kind = "refusal" /\ Arrives(r, NotAuthorized)
<1>1. Valid([status |-> StatusOf["Unauthorized"], type |-> "UnauthorizedError",
             name |-> "Unauthorized", reason |-> ""])
  BY DEF Valid
<1>2. ~Undeclared(r, Refusal("UnauthorizedError", "Unauthorized", ""))
  BY DEF Undeclared, Refusal
<1> QED
  BY <1>1, <1>2, RejectionAgreed, AgreedArrives, KindsAre DEF NotAuthorized

LEMMA UnreadyArrives ==
  Arrives("readyz", Refusal("ServiceUnavailableError", "ServiceUnavailable", ""))
<1>1. "readyz" \in Routes
  BY RoutesAre DEF OpenRoutes
<1>2. Tongue("readyz") = "ServiceUnavailableError" /\ "ServiceUnavailable" \in Speaks("readyz")
  BY DEF Tongue, Speaks, ItemRoutes, ApplicationRoutes, DecisionRoutes, TemplateRoutes,
     ReaderRoutes
<1>3. Reasonable(Tongue("readyz"), "")
  BY <1>2 DEF Reasonable
<1>4. ~Undeclared("readyz", Refusal("ServiceUnavailableError", "ServiceUnavailable", ""))
  BY DEF Undeclared, DecisionRoutes
<1> QED
  BY <1>1, <1>2, <1>3, <1>4, SpokenArrives

LEMMA MethodSpeaks ==
  ASSUME Decoded, call.route \in Secured, NEW e \in Raised
  PROVE  Sayable(call.route, Mapped(call.route, e))
<1>1. PICK s : s = Mapped(call.route, e)
  OBVIOUS
<1>2. Arrives(call.route, s) \/ Unheard(call.route, s)
  BY <1>1, RoutesAre, ItemsSpeak, ApplicationsSpeak, TemplatesSpeak, ReadersSpeak
<1>3. s.kind = "refusal"
  BY <1>2 DEF Arrives, Unheard
<1> QED
  BY <1>1, <1>2, <1>3 DEF Sayable
LEMMA SpokenStep == ASSUME Shaped, Spoken, [Next]_vars PROVE Spoken'
<1>1. CASE UNCHANGED call
  BY <1>1 DEF Spoken, Decoded
<1>2. ASSUME NEW r \in Routes, NEW token \in Tokens, NEW carries \in Carried(r),
             Call(r, carries, token)
      PROVE  Spoken'
  <2>1. call'.step = "sent" /\ call'.route = r /\ call'.said = Nothing
    BY <1>2 DEF Call, NoCall
  <2> QED
    BY <2>1, KindsAre DEF Spoken
<1>3. CASE DecodeRequest
  <2>1. CASE Decoded
    <3>1. /\ call'.step = "decoded" /\ call'.said = call.said /\ call'.route = call.route
          /\ call'.carries = call.carries /\ call.step = "sent"
      BY <1>3, <2>1 DEF DecodeRequest, Decoded, Shaped, Fields
    <3> QED
      BY <2>1, <3>1, KindsAre DEF Spoken, Decoded
  <2>2. CASE ~Decoded
    BY <1>3, <2>2, AnswerSpoken DEF DecodeRequest, Decoded
  <2> QED
    BY <2>1, <2>2
<1>4. CASE Authorize
  <2>1. call.step = "decoded" /\ call.route \in Secured /\ Decoded
    BY <1>4 DEF Authorize, Spoken
  <2>2. CASE held' = NoKey
    BY <1>4, <2>2, AnswerSpoken DEF Authorize, KeysUnavailable, Sayable
  <2>3. CASE held' # NoKey /\ call.token = held'
    <3>1. /\ call'.step = "admitted" /\ call'.said = call.said /\ call'.route = call.route
          /\ call'.carries = call.carries
      BY <1>4, <2>3 DEF Authorize, Shaped, Fields
    <3> QED
      BY <2>1, <3>1, KindsAre DEF Spoken, Decoded
  <2>4. CASE held' # NoKey /\ call.token # held'
    <3>1. /\ call'.step = "replied" /\ call'.said = NotAuthorized
          /\ call'.reply = Encode(call.route, NotAuthorized)
          /\ call'.route = call.route /\ call'.carries = call.carries
      BY <1>4, <2>4 DEF Authorize, Shaped, Fields
    <3>2. NotAuthorized.kind = "refusal" /\ Arrives(call.route, NotAuthorized)
      BY <2>1, RejectionArrives
    <3> QED
      BY <3>1, <3>2 DEF Spoken
  <2> QED
    BY <2>2, <2>3, <2>4
<1>15. CASE RejectGarbled
  <2>1. call.step = "decoded" /\ call.route \in Secured /\ Decoded
    BY <1>15 DEF RejectGarbled, Spoken
  <2>2. NotAuthorized.kind = "refusal" /\ Arrives(call.route, NotAuthorized)
    BY <2>1, RejectionArrives
  <2> QED
    BY <1>15, <2>1, <2>2, AnswerSpoken DEF RejectGarbled, Sayable
<1>5. CASE NoAuthenticator \/ Fail
  BY <1>5, AnswerSpoken DEF NoAuthenticator, Fail, KeysUnavailable, Sayable
<1>6. CASE Probe
  <2>1. PICK e \in {Success} \cup (IF call.route = "readyz"
                 THEN {Refusal("ServiceUnavailableError", "ServiceUnavailable", "")} ELSE {}) :
          Answer(e, "replied")
    BY <1>6 DEF Probe
  <2>2. Sayable(call.route, e)
    BY <2>1, UnreadyArrives, KindsAre DEF Sayable
  <2> QED
    BY <2>1, <2>2, AnswerSpoken
<1>7. CASE Refuse
  <2>1. PICK e \in Raised : Answer(Mapped(call.route, e), "replied")
    BY <1>7 DEF Refuse
  <2>2. Sayable(call.route, Mapped(call.route, e))
    BY <1>7, MethodSpeaks DEF Refuse, Spoken
  <2> QED
    BY <2>1, <2>2, AnswerSpoken
<1>8. CASE Succeed
  <2>1. /\ call'.step = "replied" /\ call'.said = Success
        /\ call'.reply = Encode(call.route, Success)
        /\ call'.route = call.route /\ call'.carries = call.carries
    BY <1>8 DEF Succeed, Shaped, Fields
  <2> QED
    BY <2>1, KindsAre DEF Spoken
<1>9. CASE Hear
  <2>1. PICK readable \in Readings[call.route] :
          call' = [call EXCEPT !.step = "heard",
                     !.heard = Decode(call.route, call.reply, readable)]
    BY <1>9 DEF Hear
  <2>2. readable = TRUE
    BY <2>1, ReadingsAre DEF Spoken
  <2>3. /\ call'.step = "heard" /\ call'.heard = Decode(call.route, call.reply, TRUE)
        /\ call'.said = call.said /\ call'.reply = call.reply
        /\ call'.route = call.route /\ call'.carries = call.carries
    BY <2>1, <2>2 DEF Shaped, Fields
  <2> QED
    BY <2>3 DEF Spoken, Decoded
<1>10. CASE LoseAndRetry
  <2>1. call'.step = "sent" /\ call'.said = Nothing /\ call'.route = call.route
    BY <1>10 DEF LoseAndRetry, Shaped, Fields
  <2> QED
    BY <2>1, KindsAre DEF Spoken
<1>11. CASE Restart
  <2>1. CASE call.step \in {"sent", "decoded", "admitted"}
    <3>1. call'.step = "replied" /\ call'.said = Nothing /\ call'.route = call.route
      BY <1>11, <2>1 DEF Restart, Shaped, Fields
    <3> QED
      BY <3>1, KindsAre DEF Spoken
  <2> QED
    BY <1>1, <1>11, <2>1 DEF Restart
<1>12. CASE Forget
  <2>1. call'.step = "idle" /\ call'.route = "livez" /\ call'.said = Nothing
    BY <1>12 DEF Forget, NoCall
  <2>2. "livez" \in Routes
    BY RoutesAre DEF OpenRoutes
  <2> QED
    BY <2>1, <2>2, KindsAre DEF Spoken
<1>13. CASE OtherWrite \/ Rotate \/ EndpointFails \/ EndpointReturns \/ RefreshKeys
  BY <1>1, <1>13 DEF OtherWrite, Rotate, EndpointFails, EndpointReturns, RefreshKeys
<1> QED
  BY <1>1, <1>2, <1>3, <1>4, <1>5, <1>6, <1>7, <1>8, <1>9, <1>10, <1>11, <1>12, <1>13,
     <1>15
  DEF Next, vars

LEMMA SpokenAlways == Spec => [](Shaped /\ Spoken)
<1>1. Init => Shaped /\ Spoken
  <2>1. NoCall.step = "idle" /\ NoCall.route = "livez" /\ NoCall.said = Nothing
    BY DEF NoCall
  <2>2. "livez" \in Routes
    BY RoutesAre DEF OpenRoutes
  <2> QED
    BY <2>1, <2>2, KindsAre, NoCallShaped DEF Init, Shaped, Spoken
<1>2. Shaped /\ Spoken /\ [Next]_vars => (Shaped /\ Spoken)'
  BY ShapedStep, SpokenStep
<1> QED
  BY <1>1, <1>2, PTL DEF Spec

\* What the service says is what the client understands: on every route a refusal is
\* heard under its own name and reason, a result as a result, and the one refusal no
\* design declares - a decision that outgrows its envelope - as nothing it can read.
THEOREM HeardAsItselfHolds == Spec => []HeardAsItself
<1>1. Spoken => HeardAsItself
  <2> SUFFICES ASSUME Spoken, call.step = "heard", call.said.kind \in {"refusal", "result"}
               PROVE  IF Undeclared(call.route, call.said)
                      THEN call.heard.kind = "unreadable" ELSE call.heard = call.said
    BY DEF HeardAsItself
  <2>1. call.heard = Decode(call.route, Encode(call.route, call.said), TRUE)
    BY DEF Spoken
  <2>2. CASE call.said.kind = "result"
    BY <2>1, <2>2, SuccessArrives DEF Spoken
  <2>3. CASE call.said.kind = "refusal"
    <3>1. Arrives(call.route, call.said) \/ Unheard(call.route, call.said)
      BY <2>3 DEF Spoken
    <3> QED
      BY <2>1, <3>1 DEF Arrives, Unheard
  <2> QED
    BY <2>2, <2>3
<1> QED
  BY <1>1, SpokenAlways, PTL

\* Every refusal a method makes is one the design declares for its route - but for the
\* envelope - and a client given a good identifier and filters sends no request the server
\* cannot decode: the three generated copies of the contract agree with the design.
THEOREM RoutesKeepTheDesignHolds == Spec => []RoutesKeepTheDesign
<1>1. Spoken => RoutesKeepTheDesign
  <2> SUFFICES ASSUME Spoken PROVE RoutesKeepTheDesign
    OBVIOUS
  <2>1. call.said.kind = "refusal" =>
          call.said.name \in Declares[call.route] \/ Undeclared(call.route, call.said)
    BY DEF Spoken, Arrives, Unheard
  <2>2. call.said.kind = "malformed" =>
          ~(Sends[call.route] \cup CallerParts \subseteq call.carries)
    BY SendsWhatIsRequired DEF Spoken, Decoded
  <2> QED
    BY <2>1, <2>2 DEF RoutesKeepTheDesign
<1> QED
  BY <1>1, SpokenAlways, PTL
=============================================================================
