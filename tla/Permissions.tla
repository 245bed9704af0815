---------------------------- MODULE Permissions ----------------------------
(***************************************************************************)
(* Who may do what to a record: src/server/security/filter.ts and the      *)
(* can... methods of src/server/storage/table.ts.                          *)
(***************************************************************************)
CONSTANTS Users,       \* ids of user accounts
          Tables,      \* table names
          Settings,    \* Settings[t] : the permissions of table t
          Anonymous,   \* the actor without a session
          Admin,       \* the actor of the server's own administration
          NoOwner      \* owner of a record that no user account made

Levels == {"everybody", "authenticated", "owner", "nobody"}

ASSUME SettingsAssumption ==
  Settings \in [Tables -> [create : Levels, read : Levels,
                           update : Levels, delete : Levels]]

ASSUME ActorsAssumption ==
  /\ Anonymous \notin Users
  /\ Admin \notin Users
  /\ NoOwner \notin Users
  /\ Anonymous # Admin

\* The presets that tables are declared with; a table without settings is private.
Policy(create, read, update, delete) ==
  [create |-> create, read |-> read, update |-> update, delete |-> delete]

Presets == [userPrivate     |-> Policy("authenticated", "owner", "owner", "owner"),
            publicRead      |-> Policy("authenticated", "everybody", "owner", "owner"),
            publicReadWrite |-> Policy("everybody", "everybody", "everybody", "everybody")]

Actors == Users \cup {Anonymous, Admin}
Owners == Users \cup {NoOwner}

IsPrivate(t) == Settings[t].read = "owner"

\* A rule applied to one record, by its owner.
IsPermissionAllowed(level, actor, owner) ==
  \/ actor = Admin
  \/ level = "everybody"
  \/ level = "authenticated" /\ actor \in Users
  \/ level = "owner" /\ actor \in Users /\ owner = actor

\* The same rule applied to a whole table.
CanAccess(level, actor) ==
  \/ actor = Admin
  \/ level = "everybody"
  \/ actor \in Users /\ level # "nobody"

\* canUpdate and canDelete fall back on the table when there is no record; a
\* put on no record or on a tombstone needs the right to create.
CanApplyChange(actor, t, op, existing) ==
  \/ actor = Admin
  \/ /\ op = "delete"
     /\ IF existing.op = "none"
        THEN CanAccess(Settings[t].delete, actor)
        ELSE IsPermissionAllowed(Settings[t].delete, actor, existing.owner)
  \/ /\ op = "put"
     /\ IF existing.op = "put"
        THEN IsPermissionAllowed(Settings[t].update, actor, existing.owner)
        ELSE CanAccess(Settings[t].create, actor)

\* filterAndSanitizeChanges: may `reader` be told of a log entry?  In a
\* private table only the owner's entries are, to the owner.
CanReadChange(reader, e) ==
  /\ CanAccess(Settings[e.table].read, reader)
  /\ IsPrivate(e.table) =>
       reader = Admin \/ (reader \in Users /\ e.owner = reader)
  /\ IsPermissionAllowed(Settings[e.table].read, reader, e.owner)

\* filterAndSanitizeSnapshot: is the live record r, in a partition of table t
\* that belongs to `holder`, in the snapshot of `reader`?
InSnapshot(reader, t, holder, r) ==
  /\ CanAccess(Settings[t].read, reader)
  /\ ~(IsPrivate(t) /\ reader = Anonymous)
  /\ holder = (IF IsPrivate(t) THEN reader ELSE NoOwner)
  /\ IsPermissionAllowed(Settings[t].read, reader, r.owner)

=============================================================================
