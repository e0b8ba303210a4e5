---- MODULE Team ----
(***************************************************************************)
(* The members of a DSP: their roles (roles.rs), the invitations that      *)
(* bring them (accounts/invitations.rs), how membership changes and ends   *)
(* (tenants.rs) and the features the platform owner gives the DSP          *)
(* (features.rs).  Every request is checked and carried out in one step    *)
(* under the platform lock, through a view that was opened before          *)
(* (accounts/sessions.rs); accepting an invitation is two such steps, with *)
(* the hashing of a password between them.                                 *)
(***************************************************************************)
EXTENDS Naturals, FiniteSets

CONSTANTS
    Person,      \* whoever may be a member, by email
    Elsewhere,   \* those of them with a membership of another DSP
    Role,        \* the roles members make
    Permission,  \* the permissions
    PermissionSets,     \* the sets of permissions they give a role
    Feature,     \* the catalog, by feature: kind, permissions, provides and requires
    Start,       \* a founded DSP: its members, roles and features
    MaxTeamEdits,\* bounds what members and the platform owner change
    MaxAccepts   \* bounds the invitations accepted

ASSUME TeamAssumption ==
    /\ Elsewhere \subseteq Person /\ PermissionSets \subseteq SUBSET Permission
    /\ MaxTeamEdits \in Nat /\ MaxAccepts \in Nat

VARIABLES
    users,      \* users: the version of each account, 0 without one
    members,    \* memberships: the role of each member
    roles,      \* roles: the permissions of each role, stored
    open,       \* invitations: the open one to each person
    accepting,  \* what each person's acceptance in progress has read
    views,      \* the view each one opened
    enabled,    \* dsp_features
    dspRevision,   \* dsps.revision
    active,     \* dsps.status
    joined,     \* the last one who joined, with the role as invited
    teamEdits, accepts, invites

teamTable == <<users, members, roles, open, enabled, dspRevision, active>>
teamVars == <<teamTable, accepting, views, joined, teamEdits, accepts, invites>>

Owner == "owner"            \* the system role
Platform == "platform"      \* the platform owner, who is a member of nothing
Nobody == "none"
Actor == Person \union {Platform}
RoleIds == Role \union {Owner}
NoInvitation == [id |-> 0, role |-> Nobody, by |-> Nobody, as |-> {}]
NoView == [there |-> FALSE, revision |-> 0, role |-> Nobody, access |-> {}]
NotAccepting == [id |-> 0, role |-> Nobody, version |-> 0]
Gone == {Nobody}            \* the permissions of a role that does not exist

\* The DSP is founded: its first owner has accepted.
ASSUME FoundedAssumption ==
    /\ Nobody \notin Role /\ Platform \notin Person
    /\ Start.members \in [Person -> RoleIds \union {Nobody}]
    /\ Start.roles \in [Role -> (SUBSET Permission) \union {Gone}]
    /\ \E p \in Person : Start.members[p] = Owner

\* grants: a permission exists while the page that owns it is on, or nothing owns it.
Pages == {f \in DOMAIN Feature : Feature[f].kind = "page"}
Grants(on, permission) ==
    \A f \in Pages : permission \in Feature[f].permissions => f \in on
Visible(on, permissions) == {p \in permissions : Grants(on, p)}

RoleThere(r) == r \in RoleIds /\ (r # Owner => roles[r] # Gone)
RolePermissions(r) == IF r = Owner THEN Permission ELSE roles[r]
\* grant and context: the role of who acts, and what that lets them do.
RoleOf(a) == IF a = Platform THEN Owner ELSE members[a]
Belongs(a) == a # Platform => (users[a] # 0 /\ RoleThere(members[a]))
Access(a) == IF Belongs(a) THEN Visible(enabled, RolePermissions(RoleOf(a))) ELSE {}
Can(a, permission) == permission \in Access(a)

\* from_view: the view is of this revision and of the role its holder still has.
ViewWorks(a) ==
    /\ views[a].there /\ active /\ Belongs(a)
    /\ views[a].revision = dspRevision /\ views[a].role = RoleOf(a)
May(a, permission) == ViewWorks(a) /\ Can(a, permission)

\* ensure_assignable: nobody hands out access they do not hold.
Assignable(a, r) ==
    IF r = Owner THEN RoleOf(a) = Owner
    ELSE Visible(enabled, roles[r]) \subseteq Access(a)

\* inviter_authorized
InviterAuthorized(i) ==
    i.by # Platform =>
        /\ i.by \in Person /\ Belongs(i.by) /\ RoleThere(i.role)
        /\ members[i.by] # Owner =>
              /\ i.role # Owner /\ "members.invite" \in RolePermissions(members[i.by])
              /\ Visible(enabled, roles[i.role]) \subseteq RolePermissions(members[i.by])
\* INVITATION
InvitationOpen(p, id) ==
    /\ id # 0 /\ open[p].id = id /\ RoleThere(open[p].role) /\ active
    /\ InviterAuthorized(open[p])

TeamEdit == teamEdits < MaxTeamEdits /\ teamEdits' = teamEdits + 1
Unsigned == UNCHANGED dspRevision
Changed == dspRevision' = dspRevision + 1

OpenView(a) ==
    /\ Belongs(a) /\ active
    /\ views' = [views EXCEPT ![a] = [there |-> TRUE, revision |-> dspRevision, role |-> RoleOf(a),
                                      access |-> Access(a)]]
    /\ UNCHANGED <<teamTable, accepting, joined, teamEdits, accepts, invites>>

\* Store::invite, with the message that carries it; an earlier open one is replaced.
Invite(a, p, r) ==
    /\ May(a, "members.invite") /\ RoleThere(r) /\ Assignable(a, r)
    /\ p # a /\ members[p] = Nobody
    /\ invites' = invites + 1
    /\ open' = [open EXCEPT ![p] =
           [id |-> invites + 1, role |-> r, by |-> a, as |-> RolePermissions(r)]]
    /\ TeamEdit
    /\ UNCHANGED <<users, members, roles, enabled, dspRevision, active, accepting, views, joined,
                   accepts>>
RevokeInvitation(a, p) ==
    /\ May(a, "members.invite") /\ open[p] # NoInvitation
    /\ open' = [open EXCEPT ![p] = NoInvitation]
    /\ TeamEdit
    /\ UNCHANGED <<users, members, roles, enabled, dspRevision, active, accepting, views, joined,
                   accepts, invites>>
InvitationExpires(p) ==
    /\ open[p] # NoInvitation /\ open' = [open EXCEPT ![p] = NoInvitation]
    /\ UNCHANGED <<users, members, roles, enabled, dspRevision, active, accepting, views, joined,
                   teamEdits, accepts, invites>>

\* accept_invitation: the invitation and the account are read, the password is checked or
\* hashed, and both are read again.
StartAccept(p) ==
    /\ accepting[p] = NotAccepting /\ InvitationOpen(p, open[p].id)
    /\ accepting' = [accepting EXCEPT ![p] =
           [id |-> open[p].id, role |-> open[p].role, version |-> users[p]]]
    /\ UNCHANGED <<teamTable, views, joined, teamEdits, accepts, invites>>
GiveUpAccept(p) ==
    /\ accepting[p] # NotAccepting /\ accepting' = [accepting EXCEPT ![p] = NotAccepting]
    /\ UNCHANGED <<teamTable, views, joined, teamEdits, accepts, invites>>
FinishAccept(p) ==
    /\ accepts < MaxAccepts /\ accepts' = accepts + 1
    /\ accepting[p] # NotAccepting /\ InvitationOpen(p, accepting[p].id)
    /\ users[p] = accepting[p].version
    /\ users' = [users EXCEPT ![p] = IF users[p] = 0 THEN 1 ELSE users[p]]
    /\ members' = [members EXCEPT ![p] = IF @ = Nobody THEN open[p].role ELSE @]
    /\ open' = [open EXCEPT ![p] = NoInvitation]
    /\ joined' = [who |-> p, role |-> members'[p], as |-> open[p].as]
    /\ accepting' = [accepting EXCEPT ![p] = NotAccepting]
    /\ UNCHANGED <<roles, enabled, dspRevision, active, views, teamEdits, invites>>
\* The row of the account changes: a password, from whatever page.
AccountChanges(p) ==
    /\ users[p] = 1 /\ users' = [users EXCEPT ![p] = 2]
    /\ UNCHANGED <<members, roles, open, enabled, dspRevision, active, accepting, views, joined,
                   teamEdits, accepts, invites>>

\* set_role, with delete_account after a removal.  What the member had issued goes, and with a
\* removal what was addressed to them.
Owners == {p \in Person : members[p] = Owner}
KeepsAnyone(p, r) == (members[p] = Owner /\ r # Owner) => Cardinality(Owners) >= 1
KeepsAnOwner(p, r) == (members[p] = Owner /\ r # Owner) => Cardinality(Owners) > 1
SetRole(a, p, r) ==
    /\ May(a, "members.manage") /\ Belongs(p) /\ Assignable(a, members[p])
    /\ r # Nobody => RoleThere(r) /\ Assignable(a, r)
    /\ KeepsAnOwner(p, r)
    /\ members' = [members EXCEPT ![p] = r]
    /\ open' = [q \in Person |->
           IF open[q].by = p \/ (r = Nobody /\ q = p) THEN NoInvitation ELSE open[q]]
    /\ users' = [users EXCEPT ![p] = IF r = Nobody /\ p \notin Elsewhere THEN 0 ELSE @]
    /\ Changed /\ TeamEdit
    /\ UNCHANGED <<roles, enabled, active, accepting, views, joined, accepts, invites>>

\* role_input: nobody puts into a role what they do not hold.
CreateRole(a, r, permissions) ==
    /\ May(a, "roles.manage") /\ ~RoleThere(r) /\ permissions \subseteq Access(a)
    /\ roles' = [roles EXCEPT ![r] = permissions]
    /\ TeamEdit
    /\ UNCHANGED <<users, members, open, enabled, dspRevision, active, accepting, views, joined,
                   accepts, invites>>
\* What the features hide of a role stays in it.  A change takes with it the invitations to
\* the role, and those that its members issued.
EndedByIssuer(r) == {p \in Person : open[p].by \in Person /\ members[open[p].by] = r}
EndedWith(r) == {p \in Person : open[p].role = r \/ (open[p].by \in Person /\ members[open[p].by] = r)}
UpdateRole(a, r, permissions) ==
    LET stored == permissions \union {p \in roles[r] : ~Grants(enabled, p)} IN
    /\ May(a, "roles.manage") /\ r # Owner /\ RoleThere(r)
    /\ permissions \subseteq Access(a) /\ Assignable(a, r)
    /\ roles' = [roles EXCEPT ![r] = stored]
    /\ open' = [p \in Person |->
           IF stored # roles[r] /\ p \in EndedWith(r) THEN NoInvitation ELSE open[p]]
    /\ Changed /\ TeamEdit
    /\ UNCHANGED <<users, members, enabled, active, accepting, views, joined, accepts, invites>>
DeleteRole(a, r) ==
    /\ May(a, "roles.manage") /\ r # Owner /\ RoleThere(r) /\ Assignable(a, r)
    /\ \A p \in Person : members[p] # r /\ open[p].role # r
    /\ roles' = [roles EXCEPT ![r] = Gone]
    /\ TeamEdit
    /\ UNCHANGED <<users, members, open, enabled, dspRevision, active, accepting, views, joined,
                   accepts, invites>>

\* set_feature and what depends on it.
Providers(capability) == {f \in DOMAIN Feature : capability \in Feature[f].provides}
Provided(capability, on) == Providers(capability) \intersect on # {}
Satisfied(f, on) == \A c \in Feature[f].requires : Provided(c, on)
Switched(on, f) ==
    LET rivals == UNION {Providers(c) : c \in Feature[f].provides} \ {f}
        missing == {c \in Feature[f].requires : ~Provided(c, on \ rivals)}
    IN  (on \ rivals) \union {f} \union UNION {Providers(c) : c \in missing}
\* A missing capability has one provider only, or the request is refused.
Switchable(on, f) ==
    \A c \in Feature[f].requires : Provided(c, on) \/ Cardinality(Providers(c)) = 1
Without(on, f) == {g \in on \ {f} : Feature[g].kind = "page" => Satisfied(g, on \ {f})}
SetFeature(f, on) ==
    /\ on => Switchable(enabled, f)
    /\ enabled' = IF on THEN Switched(enabled, f) ELSE Without(enabled, f)
    /\ dspRevision' = IF enabled' = enabled THEN dspRevision ELSE dspRevision + 1
    /\ TeamEdit
    /\ UNCHANGED <<users, members, roles, open, active, accepting, views, joined, accepts, invites>>
\* set_status
SetStatus ==
    /\ active' = ~active /\ Changed /\ TeamEdit
    /\ UNCHANGED <<users, members, roles, open, enabled, accepting, views, joined, accepts, invites>>

TeamInit ==
    /\ members = Start.members /\ roles = Start.roles /\ enabled = Start.enabled
    /\ users = [p \in Person |-> IF Start.members[p] # Nobody \/ p \in Elsewhere THEN 1 ELSE 0]
    /\ open = [p \in Person |-> NoInvitation] /\ accepting = [p \in Person |-> NotAccepting]
    /\ views = [a \in Actor |-> NoView] /\ dspRevision = 0 /\ active = TRUE
    /\ joined = [who |-> Nobody, role |-> Owner, as |-> Permission]
    /\ teamEdits = 0 /\ accepts = 0 /\ invites = 0
TeamNext ==
    \/ \E a \in Actor :
           \/ OpenView(a)
           \/ \E p \in Person :
                  \/ RevokeInvitation(a, p)
                  \/ \E r \in RoleIds : Invite(a, p, r)
                  \/ \E r \in RoleIds \union {Nobody} : SetRole(a, p, r)
           \/ \E r \in Role :
                  \/ DeleteRole(a, r)
                  \/ \E ps \in PermissionSets : CreateRole(a, r, ps) \/ UpdateRole(a, r, ps)
    \/ \E p \in Person :
           \/ InvitationExpires(p) \/ AccountChanges(p)
           \/ StartAccept(p) \/ GiveUpAccept(p) \/ FinishAccept(p)
    \/ \E f \in DOMAIN Feature, on \in BOOLEAN : SetFeature(f, on)
    \/ SetStatus
TeamSpec == TeamInit /\ [][TeamNext]_teamVars

\* A DSP that has an owner keeps one, whoever changes whose role and in whatever order.
OwnerRemains == Owners # {}
\* Whoever joins gets the role as it was when they were invited: a change of the role in
\* between ends the invitation, also for an acceptance already under way.
JoinsAsInvited == [][joined' # joined => RolePermissions(joined'.role) = joined'.as]_teamVars
=============================================================================
