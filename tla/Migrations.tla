----------------------------- MODULE Migrations -----------------------------
(***************************************************************************)
(* The Alembic revisions under migrations/versions and the commands that   *)
(* run them (migrations/env.py).  A command reads the version of the       *)
(* database, plans the revisions between it and its goal, and runs all of  *)
(* them in ONE transaction (env.py wraps run_migrations in                 *)
(* begin_transaction, and PostgreSQL's DDL is transactional): each         *)
(* revision's operations in the order of its upgrade() or downgrade(),     *)
(* then the stamp of the version table, whose UPDATE or DELETE must match  *)
(* one row.  Nothing stops two deployments from running commands at the    *)
(* same time: the locks an operation takes and that row count are all      *)
(* that orders them.  A command may also stop anywhere (Abort): its        *)
(* transaction is rolled back.                                             *)
(*                                                                         *)
(* Alembic and PostgreSQL are modelled from how the code uses them.  A     *)
(* transaction sees the committed tables except where it has touched one   *)
(* itself, and holds a table it touched until it ends; a table that a      *)
(* foreign key points at is touched too.                                   *)
(***************************************************************************)
EXTENDS Schema, Integers, Sequences

CONSTANT Migrators          \* deployments that run alembic

VARIABLES
    tables,     \* the committed tables: name -> Table
    heads,      \* the committed rows of alembic_version
    pc,         \* "idle", "run" or "error" (the command ended with an error)
    at,         \* the version the command has reached
    goal,       \* the version it was asked for
    step,       \* the next operation of its current revision
    draft,      \* the tables its transaction holds, as it sees them
    stamped,    \* {its own rows of alembic_version}, {} before it stamps
    alone       \* no two commands have ever overlapped

vars == <<tables, heads, pc, at, goal, step, draft, stamped, alone>>

Versions == 0..3            \* 0: no revision; n: revision 20260625_000n
Names == DOMAIN Metadata

----------------------------------------------------------------------------
(* The revisions.                                                          *)

create_table(name, table) == [op |-> "create_table", name |-> name, table |-> table]
drop_table(name) == [op |-> "drop_table", name |-> name]
create_index(name, index) == [op |-> "create_index", name |-> name, index |-> index]
drop_index(index, name) == [op |-> "drop_index", name |-> name, index |-> index]

CreateAuth == <<
    create_table("users",
        Table({"id", "email", "password_hash", "first_name", "last_name", "is_active",
               "is_verified", "created_at", "updated_at"}, {}, {"id"}, {"email"}, {}, {}, {})),
    create_index("users", Index("ix_users_email_lower", <<"lower(email)">>, TRUE)),
    create_table("roles",
        Table({"id", "name", "created_at"}, {"description"}, {"id"}, {"name"}, {}, {}, {})),
    create_table("permissions",
        Table({"id", "name", "created_at"}, {"description"}, {"id"}, {"name"}, {}, {}, {})),
    create_table("user_roles",
        Table({"user_id", "role_id", "created_at"}, {}, {"user_id", "role_id"}, {},
              {References("role_id", "roles", "CASCADE"),
               References("user_id", "users", "CASCADE")}, {}, {})),
    create_table("role_permissions",
        Table({"role_id", "permission_id", "created_at"}, {}, {"role_id", "permission_id"}, {},
              {References("permission_id", "permissions", "CASCADE"),
               References("role_id", "roles", "CASCADE")}, {}, {})),
    create_table("refresh_tokens",
        Table({"id", "user_id", "token_hash", "expires_at", "is_active", "created_at"},
              {"revoked_at", "replaced_by_token_hash"}, {"id"}, {"token_hash"},
              {References("user_id", "users", "CASCADE")}, {}, {})),
    create_index("refresh_tokens",
        Index("ix_refresh_tokens_user_active", <<"user_id", "is_active">>, FALSE)) >>

DropAuth == <<
    drop_index("ix_refresh_tokens_user_active", "refresh_tokens"),
    drop_table("refresh_tokens"), drop_table("role_permissions"), drop_table("user_roles"),
    drop_table("permissions"), drop_table("roles"),
    drop_index("ix_users_email_lower", "users"), drop_table("users") >>

CreateAddresses == <<
    create_table("addresses",
        Table({"id", "user_id", "address_type", "full_name", "phone_number", "line1", "city",
               "state", "postal_code", "country", "is_default", "created_at", "updated_at"},
              {"line2"}, {"id"}, {},
              {References("user_id", "users", "CASCADE")}, {"ck_addresses_address_type"}, {})),
    create_index("addresses",
        Index("ix_addresses_user_type", <<"user_id", "address_type">>, FALSE)) >>

DropAddresses == <<
    drop_index("ix_addresses_user_type", "addresses"), drop_table("addresses") >>

CreateCatalog == <<
    create_table("categories",
        Table({"id", "name", "slug", "is_active", "created_at", "updated_at"},
              {"parent_id", "description"}, {"id"}, {"slug"},
              {References("parent_id", "categories", "SET NULL")}, {}, {})),
    create_index("categories",
        Index("ix_categories_parent_active", <<"parent_id", "is_active">>, FALSE)),
    create_table("products",
        Table({"id", "category_id", "seller_id", "name", "slug", "sku", "description", "price",
               "currency", "is_active", "created_at", "updated_at"},
              {"compare_at_price"}, {"id"}, {"slug", "sku"},
              {References("category_id", "categories", "RESTRICT"),
               References("seller_id", "users", "RESTRICT")},
              {"ck_products_price_non_negative", "ck_products_compare_price"}, {})),
    create_index("products",
        Index("ix_products_category_active", <<"category_id", "is_active">>, FALSE)),
    create_index("products",
        Index("ix_products_seller_active", <<"seller_id", "is_active">>, FALSE)),
    create_index("products", Index("ix_products_name", <<"name">>, FALSE)),
    create_table("product_images",
        Table({"id", "product_id", "url", "position", "is_primary", "created_at"},
              {"alt_text"}, {"id"}, {}, {References("product_id", "products", "CASCADE")}, {}, {})),
    create_index("product_images",
        Index("ix_product_images_product_position", <<"product_id", "position">>, FALSE)) >>

\* Mutant: the downgrade drops products before the images that refer to them.
DropCatalogParentsFirst == <<
    drop_index("ix_products_name", "products"),
    drop_index("ix_products_seller_active", "products"),
    drop_index("ix_products_category_active", "products"), drop_table("products"),
    drop_index("ix_product_images_product_position", "product_images"),
    drop_table("product_images"),
    drop_index("ix_categories_parent_active", "categories"), drop_table("categories") >>

DropCatalog == <<
    drop_index("ix_product_images_product_position", "product_images"),
    drop_table("product_images"),
    drop_index("ix_products_name", "products"),
    drop_index("ix_products_seller_active", "products"),
    drop_index("ix_products_category_active", "products"),
    drop_table("products"),
    drop_index("ix_categories_parent_active", "categories"), drop_table("categories") >>

Upgrade == <<CreateAuth, CreateAddresses, CreateCatalog>>
Downgrade == <<DropAuth, DropAddresses, DropCatalog>>

----------------------------------------------------------------------------
(* A command's transaction.                                                *)

Missing == Table({}, {}, {}, {}, {}, {}, {})          \* no such table

\* What the transaction of m sees: what it has touched, the rest as committed.
View(m) == [n \in Names |-> IF n \in DOMAIN draft[m] THEN draft[m][n] ELSE tables[n]]
Heads(m) == IF stamped[m] = {} THEN heads ELSE UNION stamped[m]

\* The operations of the revision m is at, and the version it leads to.
Target(m) == IF goal[m] > at[m] THEN at[m] + 1 ELSE at[m] - 1
Operations(m) == IF goal[m] > at[m] THEN Upgrade[at[m] + 1] ELSE Downgrade[at[m]]

\* The tables and indexes an operation names are as it needs them.
Applies(o, view) ==
    CASE o.op = "create_table" ->
            /\ view[o.name] = Missing
            /\ \A r \in o.table.references : r.table = o.name \/ view[r.table] # Missing
      [] o.op = "drop_table"   -> view[o.name] # Missing
      [] o.op = "create_index" -> /\ view[o.name] # Missing
                                  /\ \A n \in Names : o.index \notin view[n].indexes
      [] o.op = "drop_index"   -> \E i \in view[o.name].indexes : i.name = o.index

\* The tables it locks: its own and those at the other end of its foreign keys.
Touched(o, view) ==
    LET ends(table) == {r.table : r \in table.references}
    IN  {o.name} \cup CASE o.op = "create_table" -> ends(o.table)
                        [] o.op = "drop_table"   -> ends(view[o.name])
                        [] OTHER                 -> {}

\* DROP TABLE is refused while another table refers to the table.
Refused(o, view) ==
    /\ o.op = "drop_table"
    /\ \E n \in Names \ {o.name} : \E r \in view[n].references : r.table = o.name

Result(o, table) ==
    CASE o.op = "create_table" -> o.table
      [] o.op = "drop_table"   -> Missing
      [] o.op = "create_index" -> [table EXCEPT !.indexes = @ \cup {o.index}]
      [] o.op = "drop_index"   -> [table EXCEPT !.indexes = {i \in @ : i.name # o.index}]

Init ==
    /\ tables = [n \in Names |-> Missing]
    /\ heads = {}
    /\ pc = [m \in Migrators |-> "idle"]
    /\ at = [m \in Migrators |-> 0]
    /\ goal = [m \in Migrators |-> 0]
    /\ step = [m \in Migrators |-> 1]
    /\ draft = [m \in Migrators |-> <<>>]
    /\ stamped = [m \in Migrators |-> {}]
    /\ alone = TRUE

\* `alembic upgrade` or `downgrade` to version g: the version table is read and
\* the revisions up to g are planned from it.
Start(m, g) ==
    /\ pc[m] # "run"
    /\ \E v \in IF heads = {} THEN {0} ELSE heads :
        /\ g # v
        /\ at' = [at EXCEPT ![m] = v]
    /\ pc' = [pc EXCEPT ![m] = "run"]
    /\ goal' = [goal EXCEPT ![m] = g]
    /\ alone' = (alone /\ \A other \in Migrators : pc[other] # "run")
    /\ UNCHANGED <<tables, heads, step, draft, stamped>>

\* The transaction ends and leaves the command in state `end`.
Ends(m, end) ==
    /\ pc' = [pc EXCEPT ![m] = end]
    /\ at' = [at EXCEPT ![m] = 0]
    /\ goal' = [goal EXCEPT ![m] = 0]
    /\ step' = [step EXCEPT ![m] = 1]
    /\ draft' = [draft EXCEPT ![m] = <<>>]
    /\ stamped' = [stamped EXCEPT ![m] = {}]
    /\ UNCHANGED alone

RollsBack(m, end) == Ends(m, end) /\ UNCHANGED <<tables, heads>>

\* One operation of the current revision: it raises, or waits for the commands
\* that hold a table it touches and then takes effect (or is refused).
Operate(m) ==
    /\ pc[m] = "run" /\ at[m] # goal[m] /\ step[m] <= Len(Operations(m))
    /\ LET o == Operations(m)[step[m]]
           view == View(m)
           free == \A other \in Migrators \ {m} : Touched(o, view) \cap DOMAIN draft[other] = {}
       IN  \/ ~Applies(o, view) /\ RollsBack(m, "error")
           \/ Applies(o, view) /\ free /\ Refused(o, view) /\ RollsBack(m, "error")
           \/ /\ Applies(o, view) /\ free /\ ~Refused(o, view)
              /\ draft' = [draft EXCEPT ![m] =
                    [n \in Touched(o, view) \cup DOMAIN @ |->
                        IF n = o.name THEN Result(o, view[n]) ELSE view[n]]]
              /\ step' = [step EXCEPT ![m] = @ + 1]
              /\ UNCHANGED <<tables, heads, pc, at, goal, stamped, alone>>

\* Mutant: the row count of the stamp is not checked.
MatchedOrNot(m) == TRUE

\* The row of alembic_version that a stamp needs: 0 -> 1 is an INSERT, 1 -> 0 a
\* DELETE, every other one an UPDATE.
Matched(m) == IF at[m] = 0 THEN 1 \notin Heads(m) ELSE at[m] \in Heads(m)

\* After a revision's last operation the version table is stamped; it waits for
\* another command's stamp.  A stamp that does not match one row is an error.
Stamp(m) ==
    /\ pc[m] = "run" /\ at[m] # goal[m] /\ step[m] > Len(Operations(m))
    /\ \A other \in Migrators \ {m} : stamped[other] = {}
    /\ \/ ~Matched(m) /\ RollsBack(m, "error")
       \/ /\ Matched(m)
          /\ stamped' = [stamped EXCEPT ![m] = {(Heads(m) \ {at[m]}) \cup ({Target(m)} \ {0})}]
          /\ at' = [at EXCEPT ![m] = Target(m)]
          /\ step' = [step EXCEPT ![m] = 1]
          /\ UNCHANGED <<tables, heads, pc, goal, draft, alone>>

\* Mutant: each revision commits on its own.
CommitEachRevision(m) ==
    /\ pc[m] = "run" /\ stamped[m] # {} /\ step[m] = 1
    /\ tables' = View(m)
    /\ heads' = Heads(m)
    /\ Ends(m, "idle")

Commit(m) ==
    /\ pc[m] = "run" /\ at[m] = goal[m]
    /\ tables' = View(m)
    /\ heads' = Heads(m)
    /\ Ends(m, "idle")

\* The command is killed, loses its connection, or is a deadlock's victim.
Abort(m) == pc[m] = "run" /\ RollsBack(m, "idle")

Next ==
    \E m \in Migrators :
        \/ \E g \in Versions : Start(m, g)
        \/ Operate(m) \/ Stamp(m) \/ Commit(m) \/ Abort(m)

Spec == Init /\ [][Next]_vars

----------------------------------------------------------------------------
\* The tables that the revisions up to v create.
Owned(v) == UNION {{Upgrade[n][k].name : k \in DOMAIN Upgrade[n]} : n \in 1..v}

\* Between commands the database is exactly the models, cut to the revisions
\* that the version table says were run: no column, key, foreign key, CHECK or
\* index drifts, and neither a crash in the middle of a command nor two
\* deployments that start from the same version leave tables the version does
\* not account for (env.py:39, versions/*.py against app/models/*.py).
CommittedIsTheModels ==
    \E v \in Versions :
        /\ heads = {v} \ {0}
        /\ tables = [n \in Names |-> IF n \in Owned(v) THEN Metadata[n] ELSE Missing]

\* A command that never met another one does not fail, from whatever version to
\* whatever version: each downgrade drops what refers to a table before the
\* table, and leaves nothing that the next upgrade would trip over
\* (versions/*.py upgrade() and downgrade()).
MigrationsDoNotFail == alone => \A m \in Migrators : pc[m] # "error"
\* The committed version, and what a command that runs is about to do.  Until it
\* stamps it is at the version it has read; from then on nobody else can commit,
\* and the committed version is that one.
Version == IF heads = {} THEN 0 ELSE CHOOSE v \in heads : TRUE
From(m) == IF stamped[m] = {} THEN at[m] ELSE Version
Plan == [m \in Migrators |-> IF pc[m] = "run" THEN {<<From(m), goal[m]>>} ELSE {}]

\* Whatever overlaps or dies, a command takes effect in one step, from the
\* version it has read to the version it was asked for, or not at all
\* (env.py:40).
OneByOne == INSTANCE Deployments WITH Latest <- 3, version <- Version, plan <- Plan
RefinesDeployments == OneByOne!Spec

=============================================================================
