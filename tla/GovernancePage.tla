--------------------------- MODULE GovernancePage ---------------------------
(***************************************************************************)
(* The governance page of the admin console and the services behind it.    *)
(*                                                                         *)
(* The page has two panels with a controller each.  The first              *)
(* (useAdminGovernanceController) reads the operator's session, the        *)
(* members and the roles; the second (useAdminModelGovernanceController)   *)
(* reads model profiles and prompt templates if the session shown by the   *)
(* first allows it.  A panel runs one action at a time and refreshes       *)
(* afterwards; forms keep drafts of the rows shown.                        *)
(*                                                                         *)
(* The services (orgapp, modelgovernanceapp) check a command, and write    *)
(* what it asks in a second step; nothing keeps two commands apart.  A     *)
(* member holds one role.  Of the permissions, "govern" stands for reading *)
(* and writing roles and members, "models" for those of models.  There is  *)
(* one prompt template, in versions, of which the texts are left out, and  *)
(* so are the model profiles, whose rows any status and text replaces.     *)
(***************************************************************************)
EXTENDS ScreenRequests, Integers, FiniteSets, SequencesExt

CONSTANT MaxForms   \* bound: edits, commands, moves and faults, together

(* The operator of the page is one of the members. *)
ASSUME SomeoneOperates == Owners # {}

VARIABLES
    governanceOpen,     \* the route is the page
    governance,         \* the first panel: codes, roles and members, or Blank
    modelGovernance,    \* the second panel: codes and prompt templates, or Blank
    panelErrors,        \* the panels that could not be loaded
    roleDrafts,         \* the permissions ticked in the form of each role
    memberDrafts,       \* the role chosen in the form of each member
    edited,             \* the forms changed since their rows were shown
    panelPending,       \* the panels with an action under way
    governanceWork,     \* functions and the other operator's commands, oldest first
    rolePermissions,    \* server: per role its permissions, or Off
    memberRole,         \* server: per member a role, or Off
    prompts,            \* server: the status of each version
    looseVersions,      \* history: the versions published while another was, or
                        \* with a list of the published ones that was cut short
    forms,              \* how many bounded moves there were
    governanceSlips     \* "codes": the second panel need not have the first's
                        \* codes; "race": two commands were under way at once

panelVars == <<governance, modelGovernance, panelErrors, roleDrafts, memberDrafts, edited>>
rowVars == <<rolePermissions, memberRole, prompts>>
serverVars == <<rolePermissions, memberRole, prompts, looseVersions>>
governanceVars == <<governanceOpen, panelVars, panelPending, governanceWork, serverVars,
                    forms, governanceSlips>>

Members == Owners
Operator == CHOOSE m \in Members : TRUE
Roles == {"lead", "staff", "extra"}
availablePermissions == {"govern", "models"}

(* What stands for no role is none of them, and no set of permissions. *)
ASSUME OffIsNothing == \A x \in Roles \cup (SUBSET availablePermissions) : Off # x

Panels == {"governance", "models"}

Form == forms < MaxForms /\ forms' = forms + 1

-----------------------------------------------------------------------------
(* The server.                                                             *)

(* ListRolePermissions: a role that is gone has none.                      *)
ListRolePermissions(role, roles) ==
    IF role = Off \/ roles[role] = Off THEN {} ELSE roles[role]

CodesOf(m) == ListRolePermissions(memberRole[m], rolePermissions)

(* Mutant: a role nobody holds counts.                                     *)
GovernedByRole(roles, members) ==
    \E r \in Roles : "govern" \in ListRolePermissions(r, roles)

(* ensureGovernanceRoleCoverage and its twin for a member's role: someone  *)
(* holds a role with all permissions it takes to govern.                   *)
Governed(roles, members) ==
    \E m \in Members : "govern" \in ListRolePermissions(members[m], roles)

Asks(op, of, to) == [op |-> op, of |-> of, to |-> to]
NoCommand == Asks("none", Off, Off)

OrgCommands == {"createRole", "updateRole", "deleteRole", "updateMemberRole",
                "updateSettings"}
ModelCommands == {"createPromptTemplateVersion", "updatePromptTemplateDraft",
                  "setPromptTemplateStatus", "updateModelProfile"}

(* What a command is checked against: the permission it takes, what it     *)
(* names, and for roles and members, that someone governs afterwards.      *)
Checked(by, c) ==
    /\ (IF c.op \in OrgCommands THEN "govern" ELSE "models") \in CodesOf(by)
    /\ CASE c.op = "createRole" -> rolePermissions[c.of] = Off
         [] c.op = "updateRole" ->
               /\ rolePermissions[c.of] # Off
               /\ Governed([rolePermissions EXCEPT ![c.of] = c.to], memberRole)
         [] c.op = "deleteRole" ->
               /\ rolePermissions[c.of] # Off
               /\ \A m \in Members : memberRole[m] # c.of
               /\ Governed([rolePermissions EXCEPT ![c.of] = Off], memberRole)
         [] c.op = "updateMemberRole" ->
               /\ rolePermissions[c.to] # Off
               /\ Governed(rolePermissions, [memberRole EXCEPT ![c.of] = c.to])
         [] c.op = "updatePromptTemplateDraft" -> prompts[c.of] = "draft"
         [] OTHER -> TRUE

(* Mutant: only the versions before count.                                 *)
OthersBefore(n) == {i \in DOMAIN prompts : prompts[i] = "active" /\ i < n}

(* The versions to archive when one is published, as they are listed.      *)
OthersActive(n) == {i \in DOMAIN prompts : prompts[i] = "active" /\ i # n}

Archived(listed) ==
    [i \in DOMAIN prompts |-> IF i \in listed THEN "archived" ELSE prompts[i]]

(* What it writes.  Deleting a role takes it from its members, and a row   *)
(* is saved whole: a role is there again, a draft is a draft again.        *)
Written(c, listed) ==
    CASE c.op \in {"createRole", "updateRole"} ->
            /\ rolePermissions' = [rolePermissions EXCEPT ![c.of] = c.to]
            /\ UNCHANGED <<memberRole, prompts>>
      [] c.op = "deleteRole" ->
            /\ rolePermissions' = [rolePermissions EXCEPT ![c.of] = Off]
            /\ memberRole' = [m \in Members |-> IF memberRole[m] = c.of THEN Off
                                                ELSE memberRole[m]]
            /\ UNCHANGED prompts
      [] c.op = "updateMemberRole" ->
            /\ rolePermissions[c.to] # Off
            /\ memberRole' = [memberRole EXCEPT ![c.of] = c.to]
            /\ UNCHANGED <<rolePermissions, prompts>>
      [] c.op = "createPromptTemplateVersion" ->
            prompts' = Append(prompts, "draft") /\ UNCHANGED <<rolePermissions, memberRole>>
      [] c.op = "updatePromptTemplateDraft" ->
            /\ prompts' = [prompts EXCEPT ![c.of] = "draft"]
            /\ UNCHANGED <<rolePermissions, memberRole>>
      [] c.op = "setPromptTemplateStatus" ->
            /\ prompts' = [Archived(IF c.to = "active" THEN listed ELSE {})
                              EXCEPT ![c.of] = c.to]
            /\ UNCHANGED <<rolePermissions, memberRole>>
      [] OTHER -> UNCHANGED rowVars

(* It stops halfway: the new role has no permissions yet, the version      *)
(* before is archived and the next not published.                          *)
WrittenHalf(c, listed) ==
    \/ /\ c.op = "createRole"
       /\ rolePermissions' = [rolePermissions EXCEPT ![c.of] = {}]
       /\ UNCHANGED <<memberRole, prompts>>
    \/ /\ c.op = "setPromptTemplateStatus" /\ c.to = "active"
       /\ prompts' = Archived(listed)
       /\ UNCHANGED <<rolePermissions, memberRole>>
    \/ UNCHANGED rowVars

-----------------------------------------------------------------------------
(* The functions of the page.                                              *)

loadGovernancePanel == <<"session", "rows">>
loadModelGovernancePanel == <<"models">>

Task(kind, command, todo, codes) ==
    [kind |-> kind, command |-> command, todo |-> todo, codes |-> codes,
     failed |-> FALSE, got |-> Blank]

Loads(panel, codes) ==
    Task(IF panel = "governance" THEN "load" ELSE "loadModels", NoCommand,
         IF panel = "governance" THEN loadGovernancePanel ELSE loadModelGovernancePanel,
         codes)

Running(kinds) == {i \in DOMAIN governanceWork : governanceWork[i].kind \in kinds}

(* The operator's role when the app was opened: the gate's session.        *)
gateCodes == {"govern", "models"}

(* sessionPermissionCodes of the second panel.                             *)
sessionPermissionCodes(panel) == IF panel = Blank THEN gateCodes ELSE panel.codes

(* The page is shown when both panels are, and nothing failed.             *)
AdminGovernancePage ==
    governanceOpen /\ governance # Blank /\ modelGovernance # Blank /\ panelErrors = {}

(* Mutant: the forms of rows that are shown already keep what they have.   *)
draftsOnce(panel) ==
    /\ roleDrafts' = IF governance = Blank THEN panel.roles ELSE roleDrafts
    /\ memberDrafts' = IF governance = Blank THEN panel.members ELSE memberDrafts
    /\ edited' = {}

(* The effects of the forms: new rows replace the drafts.                  *)
draftsOf(panel) ==
    /\ roleDrafts' = panel.roles /\ memberDrafts' = panel.members /\ edited' = {}

(* Mutant: the second panel is loaded once.                                *)
ReloadNever(panel, rest) == rest

(* The effect of the second controller: it loads again for other codes.    *)
ReloadModels(panel, rest) ==
    LET codes == sessionPermissionCodes(panel) IN
    IF ~governanceOpen \/ codes = sessionPermissionCodes(governance) THEN rest
    ELSE Append(Cancel(rest, "loadModels"), Loads("models", codes))

-----------------------------------------------------------------------------
(* Moves.                                                                  *)

OpenGovernance ==
    /\ Form /\ ~governanceOpen /\ governanceOpen' = TRUE
    /\ governanceWork' = Append(Append(governanceWork, Loads("governance", {})),
                                Loads("models", sessionPermissionCodes(governance)))
    /\ governanceSlips' = governanceSlips \ {"codes"}
    /\ UNCHANGED <<panelVars, panelPending, serverVars>>

(* Both controllers forget what they have, an action under way included.   *)
LeaveGovernance ==
    /\ Form /\ governanceOpen /\ governanceOpen' = FALSE
    /\ governance' = Blank /\ modelGovernance' = Blank /\ panelErrors' = {}
    /\ edited' = {} /\ panelPending' = {}
    /\ governanceWork' = Cancel(Cancel(governanceWork, "load"), "loadModels")
    /\ UNCHANGED <<roleDrafts, memberDrafts, serverVars, governanceSlips>>

(* The forms of GovernanceRolesPanel and GovernanceSessionPanel.           *)
canManage == AdminGovernancePage /\ "govern" \in governance.codes
                /\ "governance" \notin panelPending

setRolePermissionDrafts(role, permission) ==
    /\ Form /\ canManage /\ governance.roles[role] # Off
    /\ roleDrafts' = [roleDrafts EXCEPT ![role] =
                        IF permission \in @ THEN @ \ {permission} ELSE @ \cup {permission}]
    /\ edited' = edited \cup {role}
    /\ UNCHANGED <<governanceOpen, governance, modelGovernance, panelErrors, memberDrafts,
                   panelPending, governanceWork, serverVars, governanceSlips>>

setMemberRoleDrafts(m, role) ==
    /\ Form /\ canManage /\ governance.roles[role] # Off /\ memberDrafts[m] # role
    /\ memberDrafts' = [memberDrafts EXCEPT ![m] = role]
    /\ edited' = edited \cup {m}
    /\ UNCHANGED <<governanceOpen, governance, modelGovernance, panelErrors, roleDrafts,
                   panelPending, governanceWork, serverVars, governanceSlips>>

runAction(panel, command) ==
    /\ Form
    /\ panelPending' = panelPending \cup {panel}
    /\ governanceWork' = Append(governanceWork,
            IF panel = "governance"
            THEN Task("act", command, <<"check", "write">> \o loadGovernancePanel, {})
            ELSE Task("actModels", command, <<"check", "write">> \o loadModelGovernancePanel,
                      sessionPermissionCodes(governance)))
    /\ UNCHANGED <<governanceOpen, panelVars, serverVars, governanceSlips>>

(* The buttons of the first panel.  A role with members is not deleted.    *)
onCreateRole(codes) ==
    canManage /\ runAction("governance", Asks("createRole", "extra", codes))
onUpdateRole(role) ==
    /\ canManage /\ governance.roles[role] # Off
    /\ runAction("governance", Asks("updateRole", role, roleDrafts[role]))
onDeleteRole(role) ==
    /\ canManage /\ governance.roles[role] # Off
    /\ \A m \in Members : governance.members[m] # role
    /\ runAction("governance", Asks("deleteRole", role, Off))
onUpdateMemberRole(m) ==
    /\ canManage /\ memberDrafts[m] # Off
    /\ runAction("governance", Asks("updateMemberRole", m, memberDrafts[m]))
onUpdateSettings ==
    canManage /\ runAction("governance", Asks("updateSettings", Off, Off))

(* The buttons of ModelGovernancePanel.                                    *)
canWrite ==
    /\ AdminGovernancePage /\ "models" \notin panelPending
    /\ "models" \in modelGovernance.codes \cap sessionPermissionCodes(governance)

onCreatePromptTemplateVersion ==
    canWrite /\ runAction("models", Asks("createPromptTemplateVersion", Off, Off))
onUpdatePromptTemplateDraft(n) ==
    /\ canWrite /\ modelGovernance.prompts[n] = "draft"
    /\ runAction("models", Asks("updatePromptTemplateDraft", n, Off))
onSetPromptTemplateStatus(n) ==
    /\ canWrite
    /\ \E status \in {"active", "archived"} :
            /\ status = "active" => modelGovernance.prompts[n] = "draft"
            /\ status = "archived" => modelGovernance.prompts[n] # "archived"
            /\ runAction("models", Asks("setPromptTemplateStatus", n, status))
onUpdateModelProfile ==
    canWrite /\ runAction("models", Asks("updateModelProfile", Off, Off))

(* Another operator's command.                                             *)
OtherCommand(command) ==
    /\ Form
    /\ governanceWork' = Append(governanceWork, Task("other", command, <<"check", "write">>, {}))
    /\ UNCHANGED <<governanceOpen, panelVars, panelPending, serverVars, governanceSlips>>

-----------------------------------------------------------------------------
(* The server takes the next step of a function; or the function fails,    *)
(* for it is not allowed or by a fault, which can come halfway or after a  *)
(* write.                                                                  *)

Advanced(i, got) ==
    governanceWork' = [governanceWork EXCEPT ![i].todo = Tail(@), ![i].got = got]
Failed(i) ==
    governanceWork' = [governanceWork EXCEPT ![i].todo = <<>>, ![i].failed = TRUE]

By(w) == IF w.kind = "other" THEN CHOOSE m \in Members : m # Operator ELSE Operator

ServeCheck(i) ==
    LET w == governanceWork[i] IN
    /\ Head(w.todo) = "check"
    /\ IF Checked(By(w), w.command)
       THEN Advanced(i, IF w.command.op = "setPromptTemplateStatus"
                        THEN OthersActive(w.command.of) ELSE {})
       ELSE Failed(i)
    /\ UNCHANGED <<serverVars, forms, governanceSlips>>

(* Lists are read without errors: what a query that fails has brought so   *)
(* far, or nothing, is taken for the whole.  So a version is published and *)
(* those from the n-th on are not archived, or a role is deleted that some *)
(* member still holds; a role list cut short only makes a check refuse.    *)
ServeCutCheck(i) ==
    LET w == governanceWork[i]
        c == w.command
    IN
    /\ Form /\ Head(w.todo) = "check"
    /\ \/ /\ c.op = "setPromptTemplateStatus" /\ c.to = "active" /\ Checked(By(w), c)
          /\ \E n \in OthersActive(c.of) : Advanced(i, {j \in OthersActive(c.of) : j < n})
          /\ looseVersions' = looseVersions \cup {c.of} /\ UNCHANGED rowVars
       \/ /\ c.op = "deleteRole" /\ "govern" \in CodesOf(By(w)) /\ rolePermissions[c.of] # Off
          /\ Governed([rolePermissions EXCEPT ![c.of] = Off], memberRole)
          /\ Advanced(i, {}) /\ UNCHANGED serverVars
    /\ UNCHANGED governanceSlips

(* The functions about to write, and among them those about to publish.    *)
Writing == {j \in DOMAIN governanceWork :
               governanceWork[j].todo # <<>> /\ Head(governanceWork[j].todo) = "write"}
Publishing == {j \in Writing : /\ governanceWork[j].command.op = "setPromptTemplateStatus"
                               /\ governanceWork[j].command.to = "active"}

ServeWrite(i) ==
    LET w == governanceWork[i] IN
    /\ Head(w.todo) = "write"
    /\ \/ Written(w.command, w.got) /\ Advanced(i, Blank) /\ UNCHANGED forms
       \/ Form /\ Written(w.command, w.got) /\ Failed(i)
       \/ Form /\ WrittenHalf(w.command, w.got) /\ Failed(i)
       \/ /\ w.command.op = "updateMemberRole" /\ rolePermissions[w.command.to] = Off
          /\ Failed(i) /\ UNCHANGED <<rowVars, forms>>
    /\ governanceSlips' = governanceSlips \cup IF Writing # {i} THEN {"race"} ELSE {}
    /\ looseVersions' = looseVersions \cup
          IF i \in Publishing /\ Publishing # {i}
          THEN {governanceWork[j].command.of : j \in Publishing} ELSE {}

(* loadGovernancePanel: the session says what the operator may do, a       *)
(* moment before the members and roles are read.  loadModelGovernancePanel *)
(* reads nothing if the codes it is given do not allow it.                 *)
ServeRead(i) ==
    LET w == governanceWork[i] IN
    /\ CASE Head(w.todo) = "session" ->
              IF memberRole[Operator] # Off THEN Advanced(i, CodesOf(Operator)) ELSE Failed(i)
         [] Head(w.todo) = "rows" ->
              IF "govern" \in CodesOf(Operator)
              THEN Advanced(i, [codes |-> w.got, roles |-> rolePermissions,
                                members |-> memberRole])
              ELSE Failed(i)
         [] Head(w.todo) = "models" ->
              IF "models" \notin w.codes THEN Advanced(i, [codes |-> w.codes, prompts |-> <<>>])
              ELSE IF "models" \in CodesOf(Operator)
              THEN Advanced(i, [codes |-> w.codes, prompts |-> prompts])
              ELSE Failed(i)
         [] OTHER -> FALSE
    /\ UNCHANGED <<serverVars, forms, governanceSlips>>

ServeFault(i) == Form /\ Failed(i) /\ UNCHANGED <<serverVars, governanceSlips>>

ServeGovernance(i) ==
    /\ governanceWork[i].todo # <<>>
    /\ ServeCheck(i) \/ ServeCutCheck(i) \/ ServeWrite(i) \/ ServeRead(i) \/ ServeFault(i)
    /\ UNCHANGED <<governanceOpen, panelVars, panelPending>>

-----------------------------------------------------------------------------
(* A function ends: a panel is written, even if the page was left.  A load *)
(* that failed empties its panel, an action that failed says so.           *)

WithoutTask(i) == RemoveAt(governanceWork, i)

ShowGovernance(i, panel) ==
    /\ governance' = panel /\ panelErrors' = panelErrors \ {"governance"}
    /\ draftsOf(panel)
    /\ governanceWork' = ReloadModels(panel, WithoutTask(i))
    /\ UNCHANGED modelGovernance

(* The panel of an action has the codes of when the action began.          *)
ShowModels(i, panel) ==
    /\ modelGovernance' = panel /\ panelErrors' = panelErrors \ {"models"}
    /\ edited' = IF AdminGovernancePage THEN edited ELSE {}
    /\ IF governance = Blank \/ AdminGovernancePage THEN UNCHANGED <<roleDrafts, memberDrafts>>
       ELSE roleDrafts' = governance.roles /\ memberDrafts' = governance.members
    /\ governanceWork' = WithoutTask(i)
    /\ UNCHANGED governance

TakeGovernance(i) ==
    LET w == governanceWork[i] IN
    /\ w.todo = <<>>
    /\ CASE w.kind \in {"load", "act"} /\ ~w.failed ->
              ShowGovernance(i, w.got) /\ UNCHANGED governanceSlips
         [] w.kind = "load" /\ w.failed ->
              /\ governance' = Blank /\ panelErrors' = panelErrors \cup {"governance"}
              /\ edited' = {}
              /\ governanceWork' = ReloadModels(Blank, WithoutTask(i))
              /\ UNCHANGED <<modelGovernance, roleDrafts, memberDrafts, governanceSlips>>
         [] w.kind \in {"loadModels", "actModels"} /\ ~w.failed ->
              /\ ShowModels(i, w.got)
              /\ governanceSlips' = governanceSlips \cup
                    IF w.codes # sessionPermissionCodes(governance) THEN {"codes"} ELSE {}
         [] w.kind = "loadModels" /\ w.failed ->
              /\ modelGovernance' = Blank /\ panelErrors' = panelErrors \cup {"models"}
              /\ edited' = {} /\ governanceWork' = WithoutTask(i)
              /\ UNCHANGED <<governance, roleDrafts, memberDrafts, governanceSlips>>
         [] OTHER -> governanceWork' = WithoutTask(i) /\ UNCHANGED <<panelVars, governanceSlips>>
    /\ panelPending' = panelPending \ (CASE w.kind = "act" -> {"governance"}
                                           [] w.kind = "actModels" -> {"models"}
                                           [] OTHER -> {})
    /\ UNCHANGED <<governanceOpen, serverVars, forms>>

-----------------------------------------------------------------------------
(* The page is open and has loaded.                                        *)
GovernanceInit ==
    /\ governanceOpen = TRUE /\ panelErrors = {} /\ panelPending = {}
    /\ rolePermissions = [r \in Roles |-> CASE r = "lead" -> gateCodes
                                            [] r = "staff" -> {"models"}
                                            [] r = "extra" -> Off]
    /\ memberRole \in {f \in [Members -> {"lead", "staff"}] : f[Operator] = "lead"}
    /\ prompts = <<"active", "draft">> /\ looseVersions = {}
    /\ governance = [codes |-> gateCodes, roles |-> rolePermissions, members |-> memberRole]
    /\ modelGovernance = [codes |-> gateCodes, prompts |-> prompts]
    /\ roleDrafts = rolePermissions /\ memberDrafts = memberRole /\ edited = {}
    /\ governanceWork = <<>> /\ forms = 0 /\ governanceSlips = {}

GovernanceNext ==
    \/ OpenGovernance \/ LeaveGovernance
    \/ \E r \in Roles :
          \/ \E p \in availablePermissions : setRolePermissionDrafts(r, p)
          \/ \E m \in Members : setMemberRoleDrafts(m, r)
                                    \/ OtherCommand(Asks("updateMemberRole", m, r))
          \/ onUpdateRole(r) \/ onDeleteRole(r) \/ OtherCommand(Asks("deleteRole", r, Off))
    \/ \E m \in Members : onUpdateMemberRole(m)
    \/ \E codes \in {{}, availablePermissions} : onCreateRole(codes)
    \/ onUpdateSettings \/ onCreatePromptTemplateVersion \/ onUpdateModelProfile
    \/ \E n \in DOMAIN prompts :
          \/ modelGovernance # Blank /\ n \in DOMAIN modelGovernance.prompts
                /\ (onUpdatePromptTemplateDraft(n) \/ onSetPromptTemplateStatus(n))
          \/ OtherCommand(Asks("setPromptTemplateStatus", n, "active"))
    \/ \E i \in DOMAIN governanceWork : ServeGovernance(i) \/ TakeGovernance(i)

GovernanceSpec == GovernanceInit /\ [][GovernanceNext]_governanceVars

-----------------------------------------------------------------------------
GovernanceTypeOK ==
    LET Permissions == (SUBSET availablePermissions) \cup {Off} IN
    /\ governanceOpen \in BOOLEAN
    /\ {rolePermissions, roleDrafts} \subseteq [Roles -> Permissions]
    /\ {memberRole, memberDrafts} \subseteq [Members -> Roles \cup {Off}]
    /\ prompts \in Seq({"draft", "active", "archived"}) /\ looseVersions \subseteq DOMAIN prompts
    /\ panelErrors \subseteq Panels /\ panelPending \subseteq Panels
    /\ edited \subseteq Roles \cup Members /\ governanceSlips \subseteq {"codes", "race"}

(* On the page shown, the second panel was loaded with the permissions the *)
(* first one shows, once no load is under way; unless an action on models  *)
(* wrote it that had begun under others, or with what the page was left    *)
(* with.  And a form nobody has edited since has what its row shows, so    *)
(* that submitting it changes what the operator changed and nothing else.  *)
PanelsAgree ==
    AdminGovernancePage =>
        /\ Running({"loadModels"}) = {} /\ "codes" \notin governanceSlips =>
               modelGovernance.codes = governance.codes
        /\ \A r \in Roles \ edited : roleDrafts[r] = governance.roles[r]
        /\ \A m \in Members \ edited : memberDrafts[m] = governance.members[m]

(* Someone holds a role with the permissions to govern, so that the        *)
(* organisation cannot lock itself out; unless two commands were checked   *)
(* before either was written, which can take the last two away.            *)
SomeoneGoverns ==
    "race" \notin governanceSlips => \E m \in Members : "govern" \in CodesOf(m)

(* Of the versions of a prompt template that were published one at a time, *)
(* each with the full list of those before it, at most one is published:   *)
(* such a publication puts away all the others, also what an overlap or a  *)
(* list cut short had left published beside the one before.  Those two     *)
(* alone leave a second version published, and it is the one they          *)
(* published.                                                              *)
OneActivePrompt ==
    Cardinality({i \in DOMAIN prompts : prompts[i] = "active"} \ looseVersions) <= 1
=============================================================================
