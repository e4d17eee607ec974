----------------------------- MODULE RouteTables ----------------------------
(***************************************************************************)
(* The HTTP contract of the service, once per place that holds a copy of   *)
(* it: what the design declares of each method, what the server requires   *)
(* of a request and which errors it encodes, what the client sends and     *)
(* which answers it decodes.  Three of the four copies are generated and   *)
(* kept in the repository beside the design they were generated from.      *)
(*                                                                         *)
(* A part of a request is named by where it travels; a table of errors is  *)
(* a set of names with the Go type each travels as.                        *)
(***************************************************************************)

Parts == {"v", "if_match", "body", "uid", "query"}

\* What the caller chooses and the client passes on unchecked: the identifier in
\* the path, the filters in the query string.
CallerParts == {"uid", "query"}

Unauthorized == <<"Unauthorized", "UnauthorizedError">>
Refused == <<401, "UnauthorizedError">>

Named(type, names) == {<<n, type>> : n \in names}
EveryName == {"NotFound", "VersionMismatch", "Conflict", "BadRequest"}

Coded(type, codes) == {<<c, type>> : c \in codes}
-----------------------------------------------------------------------------
(* The design's methods: the names each route may refuse with.             *)

GetFormation_Declares         == {"NotFound", "Unauthorized"}
GetFormationActivity_Declares == {"NotFound", "Unauthorized"}
SetItemStatus_Declares        == EveryName \cup {"Unauthorized"}
AssignItem_Declares           == EveryName \cup {"Unauthorized"}
UpdateItem_Declares           == EveryName \cup {"Unauthorized"}
CreateApplication_Declares    == {"BadRequest", "Unauthorized"}
ReviseApplication_Declares    == {"BadRequest", "NotFound", "VersionMismatch", "Unauthorized"}
WithdrawApplication_Declares  == {"NotFound", "VersionMismatch", "Unauthorized"}
AcceptApplication_Declares    == {"NotFound", "VersionMismatch", "Unauthorized"}
DenyApplication_Declares      == {"NotFound", "VersionMismatch", "Unauthorized"}
DeleteApplication_Declares    == {"NotFound", "VersionMismatch", "Unauthorized"}
ListTemplates_Declares        == {"Unauthorized"}
GetTemplate_Declares          == {"NotFound", "Unauthorized"}
CreateTemplate_Declares       == {"BadRequest", "Conflict", "Unauthorized"}
UpdateTemplate_Declares       == {"NotFound", "Conflict", "BadRequest", "Unauthorized"}
PublishTemplate_Declares      == {"NotFound", "Conflict", "Unauthorized"}
ArchiveTemplate_Declares      == {"NotFound", "Conflict", "Unauthorized"}
Livez_Declares                == {}
Readyz_Declares               == {"ServiceUnavailable"}
-----------------------------------------------------------------------------
(* The server: what DecodeXRequest insists on ...                          *)

GetFormation_Requires         == {"v"}
GetFormationActivity_Requires == {"v", "query"}
SetItemStatus_Requires        == {"v", "if_match", "body"}
AssignItem_Requires           == {"v", "if_match", "body"}
UpdateItem_Requires           == {"v", "if_match", "body"}
CreateApplication_Requires    == {"v", "body"}
ReviseApplication_Requires    == {"v", "if_match", "body", "uid"}
WithdrawApplication_Requires  == {"v", "if_match", "uid"}
AcceptApplication_Requires    == {"v", "if_match", "uid"}
DenyApplication_Requires      == {"v", "if_match", "uid"}
DeleteApplication_Requires    == {"v", "if_match", "uid"}
ListTemplates_Requires        == {"v"}
GetTemplate_Requires          == {"v", "uid"}
CreateTemplate_Requires       == {"v", "body"}
UpdateTemplate_Requires       == {"v", "body", "uid"}
PublishTemplate_Requires      == {"v", "uid"}
ArchiveTemplate_Requires      == {"v", "uid"}
-----------------------------------------------------------------------------
(* ... and the errors EncodeXError knows; any other is the default 500.    *)

GetFormation_Encodes         == Named("NotFoundError", {"NotFound"}) \cup {Unauthorized}
GetFormationActivity_Encodes == Named("NotFoundError", {"NotFound"}) \cup {Unauthorized}
SetItemStatus_Encodes        == Named("FormationError", EveryName) \cup {Unauthorized}
AssignItem_Encodes           == Named("FormationError", EveryName) \cup {Unauthorized}
UpdateItem_Encodes           == Named("FormationError", EveryName) \cup {Unauthorized}
CreateApplication_Encodes    == Named("ApplicationError", {"BadRequest"}) \cup {Unauthorized}
ReviseApplication_Encodes    == Named("ApplicationError", {"BadRequest", "NotFound", "VersionMismatch"}) \cup {Unauthorized}
WithdrawApplication_Encodes  == Named("ApplicationError", {"NotFound", "VersionMismatch"}) \cup {Unauthorized}
AcceptApplication_Encodes    == Named("ApplicationError", {"NotFound", "VersionMismatch"}) \cup {Unauthorized}
DenyApplication_Encodes      == Named("ApplicationError", {"NotFound", "VersionMismatch"}) \cup {Unauthorized}
DeleteApplication_Encodes    == Named("ApplicationError", {"NotFound", "VersionMismatch"}) \cup {Unauthorized}
ListTemplates_Encodes        == {Unauthorized}
GetTemplate_Encodes          == Named("TemplateError", {"NotFound"}) \cup {Unauthorized}
CreateTemplate_Encodes       == Named("TemplateError", {"BadRequest", "Conflict"}) \cup {Unauthorized}
UpdateTemplate_Encodes       == Named("TemplateError", {"NotFound", "Conflict", "BadRequest"}) \cup {Unauthorized}
PublishTemplate_Encodes      == Named("TemplateError", {"NotFound", "Conflict"}) \cup {Unauthorized}
ArchiveTemplate_Encodes      == Named("TemplateError", {"NotFound", "Conflict"}) \cup {Unauthorized}
Readyz_Encodes               == Named("ServiceUnavailableError", {"ServiceUnavailable"})
-----------------------------------------------------------------------------
(* The client: the parts BuildXRequest and EncodeXRequest fill in ...      *)

GetFormation_Sends         == {"v"}
GetFormationActivity_Sends == {"v"}
\* Mutant: a client generated before the precondition was declared.
SetItemStatus_Sends_Older  == {"v", "body"}
SetItemStatus_Sends        == {"v", "if_match", "body"}
AssignItem_Sends           == {"v", "if_match", "body"}
UpdateItem_Sends           == {"v", "if_match", "body"}
CreateApplication_Sends    == {"v", "body"}
ReviseApplication_Sends    == {"v", "if_match", "body"}
WithdrawApplication_Sends  == {"v", "if_match"}
AcceptApplication_Sends    == {"v", "if_match"}
DenyApplication_Sends      == {"v", "if_match"}
DeleteApplication_Sends    == {"v", "if_match"}
ListTemplates_Sends        == {"v"}
GetTemplate_Sends          == {"v"}
CreateTemplate_Sends       == {"v", "body"}
UpdateTemplate_Sends       == {"v", "body"}
PublishTemplate_Sends      == {"v"}
ArchiveTemplate_Sends      == {"v"}
-----------------------------------------------------------------------------
(* ... and the statuses DecodeXResponse reads, each with the type of its   *)
(* body; any other status is an invalid response.                          *)

GetFormation_Decodes         == Coded("NotFoundError", {404}) \cup {Refused}
GetFormationActivity_Decodes == Coded("NotFoundError", {404}) \cup {Refused}
SetItemStatus_Decodes        == Coded("FormationError", {404, 412, 409, 400}) \cup {Refused}
AssignItem_Decodes           == Coded("FormationError", {404, 412, 409, 400}) \cup {Refused}
UpdateItem_Decodes           == Coded("FormationError", {404, 412, 409, 400}) \cup {Refused}
CreateApplication_Decodes    == Coded("ApplicationError", {400}) \cup {Refused}
ReviseApplication_Decodes    == Coded("ApplicationError", {400, 404, 412}) \cup {Refused}
WithdrawApplication_Decodes  == Coded("ApplicationError", {404, 412}) \cup {Refused}
AcceptApplication_Decodes    == Coded("ApplicationError", {404, 412}) \cup {Refused}
DenyApplication_Decodes      == Coded("ApplicationError", {404, 412}) \cup {Refused}
DeleteApplication_Decodes    == Coded("ApplicationError", {404, 412}) \cup {Refused}
ListTemplates_Decodes        == {Refused}
GetTemplate_Decodes          == Coded("TemplateError", {404}) \cup {Refused}
CreateTemplate_Decodes       == Coded("TemplateError", {400, 409}) \cup {Refused}
UpdateTemplate_Decodes       == Coded("TemplateError", {404, 409, 400}) \cup {Refused}
PublishTemplate_Decodes      == Coded("TemplateError", {404, 409}) \cup {Refused}
ArchiveTemplate_Decodes      == Coded("TemplateError", {404, 409}) \cup {Refused}
Livez_Decodes                == {}
Readyz_Decodes               == Coded("ServiceUnavailableError", {503})
-----------------------------------------------------------------------------
(* The tables, by route.                                                   *)

Declares ==
  [ get_formation          |-> GetFormation_Declares,
    get_formation_activity |-> GetFormationActivity_Declares,
    set_item_status        |-> SetItemStatus_Declares,
    assign_item            |-> AssignItem_Declares,
    update_item            |-> UpdateItem_Declares,
    create_application     |-> CreateApplication_Declares,
    revise_application     |-> ReviseApplication_Declares,
    withdraw_application   |-> WithdrawApplication_Declares,
    accept_application     |-> AcceptApplication_Declares,
    deny_application       |-> DenyApplication_Declares,
    delete_application     |-> DeleteApplication_Declares,
    list_templates         |-> ListTemplates_Declares,
    get_template           |-> GetTemplate_Declares,
    create_template        |-> CreateTemplate_Declares,
    update_template        |-> UpdateTemplate_Declares,
    publish_template       |-> PublishTemplate_Declares,
    archive_template       |-> ArchiveTemplate_Declares,
    livez                  |-> Livez_Declares,
    readyz                 |-> Readyz_Declares ]

Requires ==
  [ get_formation          |-> GetFormation_Requires,
    get_formation_activity |-> GetFormationActivity_Requires,
    set_item_status        |-> SetItemStatus_Requires,
    assign_item            |-> AssignItem_Requires,
    update_item            |-> UpdateItem_Requires,
    create_application     |-> CreateApplication_Requires,
    revise_application     |-> ReviseApplication_Requires,
    withdraw_application   |-> WithdrawApplication_Requires,
    accept_application     |-> AcceptApplication_Requires,
    deny_application       |-> DenyApplication_Requires,
    delete_application     |-> DeleteApplication_Requires,
    list_templates         |-> ListTemplates_Requires,
    get_template           |-> GetTemplate_Requires,
    create_template        |-> CreateTemplate_Requires,
    update_template        |-> UpdateTemplate_Requires,
    publish_template       |-> PublishTemplate_Requires,
    archive_template       |-> ArchiveTemplate_Requires,
    livez                  |-> {},
    readyz                 |-> {} ]

Encodes ==
  [ get_formation          |-> GetFormation_Encodes,
    get_formation_activity |-> GetFormationActivity_Encodes,
    set_item_status        |-> SetItemStatus_Encodes,
    assign_item            |-> AssignItem_Encodes,
    update_item            |-> UpdateItem_Encodes,
    create_application     |-> CreateApplication_Encodes,
    revise_application     |-> ReviseApplication_Encodes,
    withdraw_application   |-> WithdrawApplication_Encodes,
    accept_application     |-> AcceptApplication_Encodes,
    deny_application       |-> DenyApplication_Encodes,
    delete_application     |-> DeleteApplication_Encodes,
    list_templates         |-> ListTemplates_Encodes,
    get_template           |-> GetTemplate_Encodes,
    create_template        |-> CreateTemplate_Encodes,
    update_template        |-> UpdateTemplate_Encodes,
    publish_template       |-> PublishTemplate_Encodes,
    archive_template       |-> ArchiveTemplate_Encodes,
    livez                  |-> {},
    readyz                 |-> Readyz_Encodes ]

Sends ==
  [ get_formation          |-> GetFormation_Sends,
    get_formation_activity |-> GetFormationActivity_Sends,
    set_item_status        |-> SetItemStatus_Sends,
    assign_item            |-> AssignItem_Sends,
    update_item            |-> UpdateItem_Sends,
    create_application     |-> CreateApplication_Sends,
    revise_application     |-> ReviseApplication_Sends,
    withdraw_application   |-> WithdrawApplication_Sends,
    accept_application     |-> AcceptApplication_Sends,
    deny_application       |-> DenyApplication_Sends,
    delete_application     |-> DeleteApplication_Sends,
    list_templates         |-> ListTemplates_Sends,
    get_template           |-> GetTemplate_Sends,
    create_template        |-> CreateTemplate_Sends,
    update_template        |-> UpdateTemplate_Sends,
    publish_template       |-> PublishTemplate_Sends,
    archive_template       |-> ArchiveTemplate_Sends,
    livez                  |-> {},
    readyz                 |-> {} ]

Decodes ==
  [ get_formation          |-> GetFormation_Decodes,
    get_formation_activity |-> GetFormationActivity_Decodes,
    set_item_status        |-> SetItemStatus_Decodes,
    assign_item            |-> AssignItem_Decodes,
    update_item            |-> UpdateItem_Decodes,
    create_application     |-> CreateApplication_Decodes,
    revise_application     |-> ReviseApplication_Decodes,
    withdraw_application   |-> WithdrawApplication_Decodes,
    accept_application     |-> AcceptApplication_Decodes,
    deny_application       |-> DenyApplication_Decodes,
    delete_application     |-> DeleteApplication_Decodes,
    list_templates         |-> ListTemplates_Decodes,
    get_template           |-> GetTemplate_Decodes,
    create_template        |-> CreateTemplate_Decodes,
    update_template        |-> UpdateTemplate_Decodes,
    publish_template       |-> PublishTemplate_Decodes,
    archive_template       |-> ArchiveTemplate_Decodes,
    livez                  |-> Livez_Decodes,
    readyz                 |-> Readyz_Decodes ]

Routes  == DOMAIN Declares
Secured == {r \in Routes : "Unauthorized" \in Declares[r]}
=============================================================================
