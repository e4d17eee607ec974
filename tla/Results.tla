------------------------------ MODULE Results -------------------------------
(***************************************************************************)
(* What a method answers when it succeeds, and what the generated client   *)
(* makes of it: from the template's row to the checklist's, to the result  *)
(* the method builds, to the body the server writes, to the fields and the *)
(* values the client's validators insist on.                               *)
(*                                                                         *)
(* A body is a set of objects, each a type and its fields; of a field that *)
(* takes any value only its presence matters.                              *)
(***************************************************************************)

Set(fields) == {<<f, "set">> : f \in fields}
Object(type, fields) == [type |-> type, fields |-> fields]

Statuses   == {"not_started", "in_progress", "blocked", "done", "skipped"}
Lifecycles == {"live", "completed", "frozen"}
States     == {"draft", "published", "archived"}
-----------------------------------------------------------------------------
(* The rows.                                                               *)

\* ValidateSections: an item names its source, and may leave its audience out.
TemplateItems ==
  [ source : {"manual", "platform"}, audience : {"", "internal", "external", "both"} ]

\* Mutant: the row keeps what the template left out.
ApplyInsertDefaults_None(i) == i

ApplyInsertDefaults(i) == [i EXCEPT !.audience = IF @ = "" THEN "both" ELSE @]

\* newItemFromTemplate and expandSubItems.
NewItemFromTemplate(t) ==
  ApplyInsertDefaults([source |-> t.source, audience |-> t.audience,
                       status |-> "not_started", subItem |-> "not_started"])

\* Afterwards people and sweeps move the statuses.
Moved(i, status, subItem) == [i EXCEPT !.status = status, !.subItem = subItem]

Rows ==
  {Moved(NewItemFromTemplate(t), s, u) :
     t \in TemplateItems, s \in Statuses, u \in Statuses}
-----------------------------------------------------------------------------
(* What the methods build.  A list is built even when it is empty.         *)

ItemToWire(i) ==
  Object("item",
    Set({"uid", "item_key", "section_key", "position", "title", "gate", "requires_writer",
         "is_required", "version", "available_actions"})
      \cup {<<"status_source", i.source>>, <<"checklist_type", i.audience>>,
            <<"status", i.status>>, <<"sub_items.status", i.subItem>>})

ChecklistToWire(lifecycle) ==
  Object("checklist",
    Set({"project_uid", "template_uid", "template_version", "sections", "items", "progress",
         "is_activating"}) \cup {<<"lifecycle", lifecycle>>})

ActivityPage == Object("page", Set({"entries"}))

\* What people did and what the service did.
ActivityToWire(setBy) ==
  Object("entry", Set({"ulid", "actor", "action", "at"}) \cup {<<"set_by", setBy>>})

ApplicationToWire ==
  Object("application",
    Set({"uid", "state", "revision", "submitter_username", "submitter_name",
         "submitter_email", "application", "created_at", "updated_at"}))

TemplateToWire(state) ==
  Object("template",
    Set({"uid", "name", "template_version", "priority", "sections", "created_at",
         "updated_at"}) \cup {<<"state", state>>, <<"match", "always">>})

Some(objects) == {{}} \cup {{o} : o \in objects}

Built(r) ==
  CASE r = "get_formation" ->
         {{ChecklistToWire(l)} \cup items :
            l \in Lifecycles, items \in Some({ItemToWire(i) : i \in Rows})}
    [] r = "get_formation_activity" ->
         {{ActivityPage} \cup e : e \in Some({ActivityToWire(b) : b \in {"user", "system"}})}
    [] r \in {"set_item_status", "assign_item", "update_item"} ->
         {{ItemToWire(i)} : i \in Rows}
    [] r \in {"create_application", "revise_application", "withdraw_application",
              "accept_application", "deny_application"} -> {{ApplicationToWire}}
    [] r = "list_templates" -> Some({TemplateToWire(s) : s \in States})
    [] r \in {"get_template", "create_template", "update_template",
              "publish_template", "archive_template"} -> {{TemplateToWire(s)} : s \in States}
    [] OTHER -> {{}}
-----------------------------------------------------------------------------
(* What the server copies into the body, type by type.                     *)

ItemBody ==
  {"uid", "item_key", "section_key", "position", "title", "gate", "requires_writer",
   "status_source", "is_required", "checklist_type", "status", "available_actions",
   "version", "sub_items.status"}
ChecklistBody ==
  {"project_uid", "template_uid", "template_version", "lifecycle", "sections", "items",
   "progress", "is_activating"}
PageBody  == {"entries"}
EntryBody == {"ulid", "actor", "set_by", "action", "at"}
ApplicationBody ==
  {"uid", "state", "revision", "submitter_username", "submitter_name", "submitter_email",
   "application", "created_at", "updated_at"}
TemplateBody ==
  {"uid", "name", "template_version", "state", "priority", "match", "sections",
   "created_at", "updated_at"}

Copied ==
  [ item |-> ItemBody, checklist |-> ChecklistBody, page |-> PageBody, entry |-> EntryBody,
    application |-> ApplicationBody, template |-> TemplateBody ]

Body(o) == {f \in o.fields : f[1] \in Copied[o.type]}
-----------------------------------------------------------------------------
(* What the client requires of a body, and the values it knows.            *)

ItemRequired ==
  {"uid", "item_key", "section_key", "position", "title", "gate", "requires_writer",
   "status_source", "is_required", "checklist_type", "status", "available_actions", "version"}
ItemValues ==
  [ status_source |-> {"manual", "platform"},
    checklist_type |-> {"internal", "external", "both"},
    status |-> {"not_started", "in_progress", "blocked", "done", "skipped"} ]
SubItemValues == {"not_started", "in_progress", "blocked", "done", "skipped"}
ChecklistRequired ==
  {"project_uid", "template_uid", "template_version", "lifecycle", "sections", "items",
   "progress", "is_activating"}
LifecycleValues == {"live", "completed", "frozen"}
PageRequired  == {"entries"}
EntryRequired == {"ulid", "actor", "set_by", "action", "at"}
SetByValues   == {"user", "system"}
ApplicationRequired ==
  {"uid", "state", "revision", "submitter_username", "submitter_name", "submitter_email",
   "application", "created_at", "updated_at"}
TemplateRequired ==
  {"uid", "name", "template_version", "state", "priority", "match", "sections",
   "created_at", "updated_at"}
TemplateValues == [ state |-> {"draft", "published", "archived"}, match |-> {"always"} ]

Has(body, required) == required \subseteq {f[1] : f \in body}
Knows(body, field, values) == \A f \in body : f[1] = field => f[2] \in values

Readable(o) ==
  LET body == Body(o)
  IN CASE o.type = "item" ->
            /\ Has(body, ItemRequired)
            /\ \A f \in DOMAIN ItemValues : Knows(body, f, ItemValues[f])
            /\ Knows(body, "sub_items.status", SubItemValues)
       [] o.type = "checklist" ->
            Has(body, ChecklistRequired) /\ Knows(body, "lifecycle", LifecycleValues)
       [] o.type = "page"  -> Has(body, PageRequired)
       [] o.type = "entry" -> Has(body, EntryRequired) /\ Knows(body, "set_by", SetByValues)
       [] o.type = "application" -> Has(body, ApplicationRequired)
       [] o.type = "template" ->
            /\ Has(body, TemplateRequired)
            /\ \A f \in DOMAIN TemplateValues : Knows(body, f, TemplateValues[f])
=============================================================================
