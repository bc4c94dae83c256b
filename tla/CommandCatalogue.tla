-------------------------- MODULE CommandCatalogue --------------------------
(***************************************************************************)
(* The commands the engine registers: of each, the entities its handler    *)
(* config requires, whether it is about an app in a region, whether it is  *)
(* destructive, which of its entities are converted (to numbers and flags  *)
(* by the handler, to a dictionary by dict(), to the address of an archive *)
(* by the gateway), and what the gateway returns when the platform's       *)
(* answer has no content.                                                  *)
(***************************************************************************)
\* What the gateway returns for want of a result: an empty list ("defaults"),
\* {} ("empty"), or whether the request succeeded ("acknowledged").  The local
\* commands send no request.
Without == {"defaults", "empty", "acknowledged", "local"}

Command(required, without) ==
    [required |-> required, scoped |-> TRUE, destructive |-> FALSE,
     numbers |-> {}, flags |-> {}, patches |-> {}, addresses |-> {}, without |-> without]
Lists(required) == Command(required, "defaults")
Returns(required) == Command(required, "empty")
Acknowledges(required) == Command(required, "acknowledged")
Destroys(required) == [Acknowledges(required) EXCEPT !.destructive = TRUE]
Local(required) == [Command(required, "local") EXCEPT !.scoped = FALSE]
Unscoped(command) == [command EXCEPT !.scoped = FALSE]
Sets(flag) == [Returns({flag}) EXCEPT !.flags = {flag}]

Apps == {
    <<"apps.list", Unscoped(Lists({"region"}))>>,
    <<"apps.get", Returns({})>>,
    <<"apps.create", Unscoped(Returns({"app_name", "region"}))>>,
    <<"apps.delete", Destroys({})>>,
    <<"apps.rename", Returns({"new_name"})>>,
    <<"apps.restart", Acknowledges({})>>}

AppSettings == {
    <<"apps.set_force_https", Sets("enabled")>>,
    <<"apps.set_router_logs", Sets("enabled")>>,
    <<"apps.set_sticky_session", Sets("enabled")>>,
    <<"apps.change_project", Returns({"project_id"})>>}

AppFacilities == {
    <<"apps.stats", Lists({})>>,
    <<"apps.backups", Lists({})>>,
    <<"apps.backups.create", Acknowledges({})>>,
    <<"apps.backups.download", Returns({"backup_id"})>>}

Deployments == {
    <<"deployments.list", Lists({})>>,
    <<"deployments.details", Returns({"deployment_id"})>>,
    <<"deployments.output", Returns({"deployment_id"})>>,
    <<"deployments.create", [Returns({"github_repo"}) EXCEPT !.addresses = {"github_repo"}]>>,
    <<"deployments.cache_reset", Destroys({})>>,
    <<"deployments.rollback", Acknowledges({"release_id"})>>}

Containers == {
    <<"containers.list", Lists({})>>,
    <<"containers.scale", [Acknowledges({"container_type", "amount"})
        EXCEPT !.numbers = {"amount"}]>>,
    <<"containers.stop", Destroys({"container_id"})>>,
    <<"containers.signal", Destroys({"container_id", "signal"})>>}

AutoscalerNumbers == {"min_containers", "max_containers", "target"}

Autoscalers == {
    <<"autoscalers.list", Lists({})>>,
    <<"autoscalers.create", [Returns({"container_type", "metric"} \union AutoscalerNumbers)
        EXCEPT !.numbers = AutoscalerNumbers]>>,
    <<"autoscalers.update", Returns({"autoscaler_id"})>>,
    <<"autoscalers.delete", Destroys({"autoscaler_id"})>>}

Collaborators == {
    <<"collaborators.list", Lists({})>>,
    <<"collaborators.invite", Returns({"email"})>>,
    <<"collaborators.update_role", [Returns({"collaborator_id", "is_limited"})
        EXCEPT !.flags = {"is_limited"}]>>,
    <<"collaborators.delete", Destroys({"collaborator_id"})>>}

Domains == {
    <<"domains.list", Lists({})>>,
    <<"domains.create", Returns({"domain"})>>,
    <<"domains.delete", Destroys({"domain"})>>}

LogDrains == {
    <<"log_drains.list", Lists({})>>,
    <<"log_drains.create", Returns({"drain_type"})>>,
    <<"log_drains.delete", Destroys({"drain_id"})>>}

Notifiers == {
    <<"notifiers.list", Lists({})>>,
    <<"notifiers.create", Returns({"notifier_name", "platform_id"})>>,
    <<"notifiers.update", [Returns({"notifier_id"}) EXCEPT !.patches = {"notifier_patch"}]>>,
    <<"notifiers.delete", Destroys({"notifier_id"})>>}

EnvVars == {
    <<"env_vars.list", Lists({})>>,
    <<"env_vars.set", Returns({"env_name", "env_value"})>>,
    <<"env_vars.unset", Destroys({"env_name"})>>}

Addons == {
    <<"addons.list", Lists({})>>,
    <<"addons.add", Returns({"addon_id"})>>,
    <<"addons.remove", Destroys({"addon_id"})>>}

Projects == {<<"projects.list", Unscoped(Lists({"region"}))>>}
Events == {<<"events.list", Lists({})>>}
OneOffs == {<<"one_off.run", Returns({"command"})>>}

Memories == {
    <<"memory.show", Local({})>>,
    <<"memory.forget", Local({"memory_key"})>>,
    <<"memory.pin", Local({"memory_key"})>>}

\* An entity is a string, never a list: batch.execute always refuses here.
Platform == {
    <<"regions.list", Local({})>>,
    <<"scalingo.status", Local({})>>,
    <<"batch.execute", Local({"commands"})>>}

Confirmations == {<<"confirm", Local({"confirm_token"})>>}


\* What the handler classes register: a name, and what belongs to it.
Entries ==
    UNION {Apps, AppSettings, AppFacilities, Deployments, Containers, Autoscalers,
           Collaborators, Domains, LogDrains, Notifiers, EnvVars, Addons, Projects,
           Events, OneOffs, Memories, Platform, Confirmations}

\* The commands that an intent or a rule can give: all of them.
Spoken == {entry[1] : entry \in Entries}

\* The registry.
Catalogue == [command \in Spoken |-> (CHOOSE entry \in Entries : entry[1] = command)[2]]
=============================================================================
