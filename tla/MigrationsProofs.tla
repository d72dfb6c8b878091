-------------------------- MODULE MigrationsProofs --------------------------
(***************************************************************************)
(* Proofs about Migrations, for any number of deployments.  Planned(m, n)  *)
(* is what table n is after the operations that command m has run, had     *)
(* they started from the models at the version it started from.  MInv      *)
(* says that a command's transaction agrees with its plan: before its      *)
(* first stamp in the tables it holds, which no one else can change, and   *)
(* from then on in all of them, since no other command can commit.         *)
(***************************************************************************)
EXTENDS Migrations, TLAPS

\* The revision that creates table n.
Since(n) ==
  CASE n \in {"users", "roles", "permissions", "user_roles", "role_permissions",
              "refresh_tokens"} -> 1
    [] n = "addresses" -> 2
    [] OTHER -> 3

\* Table n at version v.
Cut(v, n) == IF Since(n) <= v THEN Metadata[n] ELSE Missing

\* Table t with these indexes.
Indexed(t, is) ==
  Table(t.required, t.optional, t.key, t.unique, t.references, t.checks, is)

\* Among the first k - 1 operations of ops there is one of this kind on n.
Done(ops, k, kind, n) == \E j \in 1..(k - 1) : ops[j].op = kind /\ ops[j].name = n
DoneIndex(ops, k, kind, n, index) ==
  \E j \in 1..(k - 1) : ops[j].op = kind /\ ops[j].name = n /\ ops[j].index = index

\* Table n after the first k - 1 operations of the upgrade to v, from version v - 1.
Rising(v, k, n) ==
  IF Since(n) # v THEN Cut(v - 1, n)
  ELSE IF Done(Upgrade[v], k, "create_table", n)
    THEN Indexed(Metadata[n], {i \in Metadata[n].indexes :
                                 DoneIndex(Upgrade[v], k, "create_index", n, i)})
  ELSE Missing

\* Table n after the first k - 1 operations of the downgrade from v.
Falling(v, k, n) ==
  IF Since(n) # v THEN Cut(v, n)
  ELSE IF Done(Downgrade[v], k, "drop_table", n) THEN Missing
  ELSE Indexed(Metadata[n], {i \in Metadata[n].indexes :
                               ~DoneIndex(Downgrade[v], k, "drop_index", n, i.name)})

Planned(m, n) ==
  IF goal[m] > at[m] THEN Rising(at[m] + 1, step[m], n)
  ELSE IF goal[m] < at[m] THEN Falling(at[m], step[m], n)
  ELSE Cut(at[m], n)

\* The tables the current revision has worked on so far.
Worked(m) == {Operations(m)[j].name : j \in 1..(step[m] - 1)}

\* The committed version is v, and the tables are the models' up to v.
Stands(v) == heads = {v} \ {0} /\ tables = [n \in Names |-> Cut(v, n)]
Committed == \E v \in Versions : Stands(v)

Types ==
  /\ pc \in [Migrators -> {"idle", "run", "error"}]
  /\ at \in [Migrators -> Versions] /\ goal \in [Migrators -> Versions]
  /\ step \in [Migrators -> Nat \ {0}]
  /\ DOMAIN draft = Migrators
  /\ draft = [m \in Migrators |-> draft[m]]
  /\ \A m \in Migrators : DOMAIN draft[m] \subseteq Names
  /\ stamped \in [Migrators -> SUBSET SUBSET Versions]
  /\ alone \in BOOLEAN

Rests(m) ==
  /\ draft[m] = <<>> /\ stamped[m] = {}
  /\ at[m] = 0 /\ goal[m] = 0 /\ step[m] = 1

\* Until it stamps, a command knows of the tables it holds only.
Holds(m) ==
  /\ at[m] # goal[m]
  /\ \A n \in DOMAIN draft[m] : draft[m][n] = Planned(m, n) /\ tables[n] = Cut(at[m], n)
  /\ Worked(m) \subseteq DOMAIN draft[m]

\* From its first stamp on the whole database is as planned.
Owns(m) ==
  /\ stamped[m] = {{at[m]} \ {0}}
  /\ \A n \in Names : View(m)[n] = Planned(m, n)

Follows(m) ==
  IF pc[m] # "run" THEN Rests(m)
  ELSE /\ at[m] # goal[m] => step[m] <= Len(Operations(m)) + 1
       /\ at[m] = goal[m] => step[m] = 1
       /\ IF stamped[m] = {} THEN Holds(m) ELSE Owns(m)

\* A table has one holder, and one command at most has stamped.
Apart(m, q) ==
  /\ DOMAIN draft[m] \cap DOMAIN draft[q] = {}
  /\ stamped[m] = {} \/ stamped[q] = {}

\* A command that has met no other runs from what is committed.
Solo ==
  alone =>
    /\ \A m \in Migrators : pc[m] # "error"
    /\ \A m, q \in Migrators : pc[m] = "run" /\ pc[q] = "run" => m = q
    /\ \A m \in Migrators : pc[m] = "run" /\ stamped[m] = {} => heads = {at[m]} \ {0}

MInv ==
  /\ Types
  /\ Committed
  /\ \A m \in Migrators : Follows(m)
  /\ \A m, q \in Migrators : m # q => Apart(m, q)
  /\ Solo
-----------------------------------------------------------------------------
(* What the revisions and the models say.                                  *)

LEMMA AllNames ==
  /\ Names = {"users", "roles", "permissions", "user_roles", "role_permissions",
              "refresh_tokens", "addresses", "categories", "products", "product_images"}
  /\ \A n \in Names : Since(n) \in 1..3
  /\ Since("users") = 1 /\ Since("roles") = 1 /\ Since("permissions") = 1
  /\ Since("user_roles") = 1 /\ Since("role_permissions") = 1 /\ Since("refresh_tokens") = 1
  /\ Since("addresses") = 2
  /\ Since("categories") = 3 /\ Since("products") = 3 /\ Since("product_images") = 3
BY DEF Names, Metadata, Since

\* Table(...) is a record of seven fields, and none of the models is empty.
LEMMA TableFields ==
  ASSUME NEW a, NEW b, NEW c, NEW d, NEW e, NEW f, NEW g, NEW is
  PROVE  /\ Table(a, b, c, d, e, f, g).required = a
         /\ Table(a, b, c, d, e, f, g).references = e
         /\ Table(a, b, c, d, e, f, g).indexes = g
         /\ Indexed(Table(a, b, c, d, e, f, g), is) = Table(a, b, c, d, e, f, is)
         /\ [Table(a, b, c, d, e, f, g) EXCEPT !.indexes = is] = Table(a, b, c, d, e, f, is)
BY DEF Table, Indexed

LEMMA Models ==
  /\ Metadata["users"] = User /\ Metadata["roles"] = Role
  /\ Metadata["permissions"] = Permission /\ Metadata["user_roles"] = UserRole
  /\ Metadata["role_permissions"] = RolePermission
  /\ Metadata["refresh_tokens"] = RefreshToken /\ Metadata["addresses"] = Address
  /\ Metadata["categories"] = Category /\ Metadata["products"] = Product
  /\ Metadata["product_images"] = ProductImage
BY DEF Metadata

LEMMA ModelTables ==
  ASSUME NEW n \in Names
  PROVE  /\ Metadata[n].required # {}
         /\ Metadata[n] = Indexed(Metadata[n], Metadata[n].indexes)
<1>1. /\ User.required # {} /\ User = Indexed(User, User.indexes)
      /\ Role.required # {} /\ Role = Indexed(Role, Role.indexes)
      /\ Permission.required # {} /\ Permission = Indexed(Permission, Permission.indexes)
  BY DEF User, Role, Permission, Table, Indexed
<1>2. /\ UserRole.required # {} /\ UserRole = Indexed(UserRole, UserRole.indexes)
      /\ RolePermission.required # {}
      /\ RolePermission = Indexed(RolePermission, RolePermission.indexes)
  BY DEF UserRole, RolePermission, Table, Indexed
<1>3. /\ RefreshToken.required # {} /\ RefreshToken = Indexed(RefreshToken, RefreshToken.indexes)
      /\ Address.required # {} /\ Address = Indexed(Address, Address.indexes)
  BY DEF RefreshToken, Address, Table, Indexed
<1>4. /\ Category.required # {} /\ Category = Indexed(Category, Category.indexes)
      /\ Product.required # {} /\ Product = Indexed(Product, Product.indexes)
      /\ ProductImage.required # {} /\ ProductImage = Indexed(ProductImage, ProductImage.indexes)
  BY DEF Category, Product, ProductImage, Table, Indexed
<1> QED
  BY <1>1, <1>2, <1>3, <1>4, AllNames, Models

\* The tables that table n refers to.
FarEnds(n) == {r.table : r \in Metadata[n].references}

LEMMA ModelEnds ==
  /\ FarEnds("users") = {} /\ FarEnds("roles") = {} /\ FarEnds("permissions") = {}
  /\ FarEnds("user_roles") = {"users", "roles"}
  /\ FarEnds("role_permissions") = {"roles", "permissions"}
  /\ FarEnds("refresh_tokens") = {"users"}
  /\ FarEnds("addresses") = {"users"}
  /\ FarEnds("categories") = {"categories"}
  /\ FarEnds("products") = {"categories", "users"}
  /\ FarEnds("product_images") = {"products"}
<1>1. /\ User.references = {} /\ Role.references = {} /\ Permission.references = {}
  BY DEF User, Role, Permission, Table
<1>2. /\ UserRole.references = {References("user_id", "users", "CASCADE"),
                                 References("role_id", "roles", "CASCADE")}
      /\ RolePermission.references = {References("role_id", "roles", "CASCADE"),
                                       References("permission_id", "permissions", "CASCADE")}
      /\ RefreshToken.references = {References("user_id", "users", "CASCADE")}
  BY DEF UserRole, RolePermission, RefreshToken, Table
<1>3. Address.references = {References("user_id", "users", "CASCADE")}
  BY DEF Address, Table
<1>4. PICK rule : Category.references = {References("parent_id", "categories", rule)}
  BY DEF Category, Table
<1>6. Product.references = {References("category_id", "categories", "RESTRICT"),
                            References("seller_id", "users", "RESTRICT")}
  BY DEF Product, Table
<1>7. ProductImage.references = {References("product_id", "products", "CASCADE")}
  BY DEF ProductImage, Table
<1>5. \A c, t, d : References(c, t, d).table = t
  BY DEF References
<1> QED
  <2>1. FarEnds("users") = {} /\ FarEnds("roles") = {} /\ FarEnds("permissions") = {}
    BY <1>1, Models DEF FarEnds
  <2>2. FarEnds("user_roles") = {"users", "roles"}
    BY <1>2, <1>5, Models DEF FarEnds
  <2>3. FarEnds("role_permissions") = {"roles", "permissions"}
    BY <1>2, <1>5, Models DEF FarEnds
  <2>4. FarEnds("refresh_tokens") = {"users"}
    BY <1>2, <1>5, Models DEF FarEnds
  <2>5. FarEnds("addresses") = {"users"}
    BY <1>3, <1>5, Models DEF FarEnds
  <2>6. FarEnds("categories") = {"categories"}
    BY <1>4, <1>5, Models DEF FarEnds
  <2>7. FarEnds("products") = {"categories", "users"}
    BY <1>6, <1>5, Models DEF FarEnds
  <2>8. FarEnds("product_images") = {"products"}
    BY <1>7, <1>5, Models DEF FarEnds
  <2> QED
    BY <2>1, <2>2, <2>3, <2>4, <2>5, <2>6, <2>7, <2>8

\* A table refers to tables of its own or an earlier revision.
LEMMA EndsEarlier ==
  ASSUME NEW n \in Names, NEW r \in Metadata[n].references
  PROVE  r.table \in Names /\ Since(r.table) <= Since(n)
<1>1. r.table \in FarEnds(n)
  BY DEF FarEnds
<1> QED
  BY <1>1, AllNames, ModelEnds

LEMMA ModelIndexes ==
  /\ Metadata["users"].indexes = {Index("ix_users_email_lower", <<"lower(email)">>, TRUE)}
  /\ Metadata["roles"].indexes = {} /\ Metadata["permissions"].indexes = {}
  /\ Metadata["user_roles"].indexes = {} /\ Metadata["role_permissions"].indexes = {}
  /\ Metadata["refresh_tokens"].indexes =
       {Index("ix_refresh_tokens_user_active", <<"user_id", "is_active">>, FALSE)}
  /\ Metadata["addresses"].indexes =
       {Index("ix_addresses_user_type", <<"user_id", "address_type">>, FALSE)}
  /\ Metadata["categories"].indexes =
       {Index("ix_categories_parent_active", <<"parent_id", "is_active">>, FALSE)}
  /\ Metadata["products"].indexes =
       {Index("ix_products_category_active", <<"category_id", "is_active">>, FALSE),
        Index("ix_products_seller_active", <<"seller_id", "is_active">>, FALSE),
        Index("ix_products_name", <<"name">>, FALSE)}
  /\ Metadata["product_images"].indexes =
       {Index("ix_product_images_product_position", <<"product_id", "position">>, FALSE)}
<1>1. /\ User.indexes = {Index("ix_users_email_lower", <<"lower(email)">>, TRUE)}
      /\ Role.indexes = {} /\ Permission.indexes = {}
  BY DEF User, Role, Permission, Table
<1>2. /\ UserRole.indexes = {} /\ RolePermission.indexes = {}
      /\ RefreshToken.indexes =
           {Index("ix_refresh_tokens_user_active", <<"user_id", "is_active">>, FALSE)}
  BY DEF UserRole, RolePermission, RefreshToken, Table
<1>3. Address.indexes = {Index("ix_addresses_user_type", <<"user_id", "address_type">>, FALSE)}
  BY DEF Address, Table
<1>4. /\ Category.indexes =
           {Index("ix_categories_parent_active", <<"parent_id", "is_active">>, FALSE)}
      /\ Product.indexes =
           {Index("ix_products_category_active", <<"category_id", "is_active">>, FALSE),
            Index("ix_products_seller_active", <<"seller_id", "is_active">>, FALSE),
            Index("ix_products_name", <<"name">>, FALSE)}
      /\ ProductImage.indexes =
           {Index("ix_product_images_product_position", <<"product_id", "position">>, FALSE)}
  BY DEF Category, Product, ProductImage, Table
<1> QED
  BY <1>1, <1>2, <1>3, <1>4, Models

LEMMA IndexFacts ==
  /\ Index("ix_users_email_lower", <<"lower(email)">>, TRUE).name = "ix_users_email_lower"
  /\ Index("ix_refresh_tokens_user_active", <<"user_id", "is_active">>, FALSE).name
       = "ix_refresh_tokens_user_active"
  /\ Index("ix_addresses_user_type", <<"user_id", "address_type">>, FALSE).name
       = "ix_addresses_user_type"
  /\ Index("ix_categories_parent_active", <<"parent_id", "is_active">>, FALSE).name
       = "ix_categories_parent_active"
  /\ Index("ix_products_category_active", <<"category_id", "is_active">>, FALSE).name
       = "ix_products_category_active"
  /\ Index("ix_products_seller_active", <<"seller_id", "is_active">>, FALSE).name
       = "ix_products_seller_active"
  /\ Index("ix_products_name", <<"name">>, FALSE).name = "ix_products_name"
  /\ Index("ix_product_images_product_position", <<"product_id", "position">>, FALSE).name
       = "ix_product_images_product_position"
BY DEF Index

\* The table an index belongs to.
Home(name) ==
  CASE name = "ix_users_email_lower" -> "users"
    [] name = "ix_refresh_tokens_user_active" -> "refresh_tokens"
    [] name = "ix_addresses_user_type" -> "addresses"
    [] name = "ix_categories_parent_active" -> "categories"
    [] name = "ix_product_images_product_position" -> "product_images"
    [] OTHER -> "products"

\* No two indexes have one name.
LEMMA IndexNames ==
  ASSUME NEW n \in Names, NEW q \in Names,
         NEW i \in Metadata[n].indexes, NEW j \in Metadata[q].indexes, i.name = j.name
  PROVE  i = j /\ n = q
<1>2. ASSUME NEW p \in Names, NEW k \in Metadata[p].indexes
      PROVE  p = Home(k.name)
  BY IndexFacts, <1>2, AllNames, ModelIndexes DEF Home
<1>3. ASSUME NEW p \in Names, NEW k \in Metadata[p].indexes, NEW l \in Metadata[p].indexes,
             k.name = l.name
      PROVE  k = l
  <2>1. CASE p = "products"
    <3> DEFINE a == Index("ix_products_category_active", <<"category_id", "is_active">>, FALSE)
               b == Index("ix_products_seller_active", <<"seller_id", "is_active">>, FALSE)
               c == Index("ix_products_name", <<"name">>, FALSE)
    <3>1. /\ Metadata["products"].indexes = {a, b, c}
          /\ a.name = "ix_products_category_active"
          /\ b.name = "ix_products_seller_active"
          /\ c.name = "ix_products_name"
      BY IndexFacts, ModelIndexes
    <3> HIDE DEF a, b, c
    <3> QED
      BY <1>3, <2>1, <3>1
  <2>2. CASE p # "products"
    <3>1. PICK a : Metadata[p].indexes \subseteq {a}
      BY <2>2, AllNames, ModelIndexes
    <3> QED
      BY <1>3, <3>1
  <2> QED
    BY <2>1, <2>2
<1> QED
  BY <1>2, <1>3

\* Each operation, with its table as the model without indexes.
LEMMA AuthOperations ==
  /\ Upgrade[1] = CreateAuth /\ Len(CreateAuth) = 8
  /\ CreateAuth[1] = create_table("users", Indexed(User, {}))
  /\ CreateAuth[3] = create_table("roles", Indexed(Role, {}))
  /\ CreateAuth[4] = create_table("permissions", Indexed(Permission, {}))
  /\ CreateAuth[5] = create_table("user_roles", Indexed(UserRole, {}))
  /\ CreateAuth[6] = create_table("role_permissions", Indexed(RolePermission, {}))
  /\ CreateAuth[7] = create_table("refresh_tokens", Indexed(RefreshToken, {}))
<1>1. Upgrade[1] = CreateAuth /\ Len(CreateAuth) = 8
  BY DEF Upgrade, CreateAuth
<1>2. /\ CreateAuth[1] = create_table("users", Indexed(User, {}))
      /\ CreateAuth[3] = create_table("roles", Indexed(Role, {}))
      /\ CreateAuth[4] = create_table("permissions", Indexed(Permission, {}))
  BY DEF CreateAuth, create_table, User, Role, Permission, Table, Indexed
<1>3. /\ CreateAuth[5] = create_table("user_roles", Indexed(UserRole, {}))
      /\ CreateAuth[6] = create_table("role_permissions", Indexed(RolePermission, {}))
      /\ CreateAuth[7] = create_table("refresh_tokens", Indexed(RefreshToken, {}))
  BY DEF CreateAuth, create_table, UserRole, RolePermission, RefreshToken, Table, Indexed
<1> QED
  BY <1>1, <1>2, <1>3

LEMMA CatalogOperations ==
  /\ Upgrade[2] = CreateAddresses /\ Len(CreateAddresses) = 2
  /\ Upgrade[3] = CreateCatalog /\ Len(CreateCatalog) = 8
  /\ CreateAddresses[1] = create_table("addresses", Indexed(Address, {}))
  /\ CreateCatalog[1] = create_table("categories", Indexed(Category, {}))
  /\ CreateCatalog[3] = create_table("products", Indexed(Product, {}))
  /\ CreateCatalog[7] = create_table("product_images", Indexed(ProductImage, {}))
<1>1. /\ Upgrade[2] = CreateAddresses /\ Len(CreateAddresses) = 2
      /\ Upgrade[3] = CreateCatalog /\ Len(CreateCatalog) = 8
  BY DEF Upgrade, CreateAddresses, CreateCatalog
<1>2. CreateAddresses[1] = create_table("addresses", Indexed(Address, {}))
  BY DEF CreateAddresses, create_table, Address, Table, Indexed
<1>3. CreateCatalog[1] = create_table("categories", Indexed(Category, {}))
  BY DEF CreateCatalog, create_table, Category, Table, Indexed
<1>4. /\ CreateCatalog[3] = create_table("products", Indexed(Product, {}))
      /\ CreateCatalog[7] = create_table("product_images", Indexed(ProductImage, {}))
  BY DEF CreateCatalog, create_table, Product, ProductImage, Table, Indexed
<1> QED
  BY <1>1, <1>2, <1>3, <1>4

LEMMA DropOperations ==
  /\ Downgrade[1] = DropAuth /\ Len(DropAuth) = 8
  /\ Downgrade[2] = DropAddresses /\ Len(DropAddresses) = 2
  /\ Downgrade[3] = DropCatalog /\ Len(DropCatalog) = 8
BY DEF Downgrade, DropAuth, DropAddresses, DropCatalog
-----------------------------------------------------------------------------
(* The order of the operations.                                            *)

Creates(o, n) ==
  o.op = "create_table" /\ o.name = n /\ o.table = Indexed(Metadata[n], {})
Indexes(o, n, name) ==
  o.op = "create_index" /\ o.name = n /\ o.index \in Metadata[n].indexes /\ o.index.name = name
Drops(o, n) == o.op = "drop_table" /\ o.name = n
Unindexes(o, n, name) == o.op = "drop_index" /\ o.name = n /\ o.index = name

LEMMA Upgrades ==
  /\ Creates(CreateAuth[1], "users")
  /\ Indexes(CreateAuth[2], "users", "ix_users_email_lower")
  /\ Creates(CreateAuth[3], "roles") /\ Creates(CreateAuth[4], "permissions")
  /\ Creates(CreateAuth[5], "user_roles") /\ Creates(CreateAuth[6], "role_permissions")
  /\ Creates(CreateAuth[7], "refresh_tokens")
  /\ Indexes(CreateAuth[8], "refresh_tokens", "ix_refresh_tokens_user_active")
  /\ Creates(CreateAddresses[1], "addresses")
  /\ Indexes(CreateAddresses[2], "addresses", "ix_addresses_user_type")
  /\ Creates(CreateCatalog[1], "categories")
  /\ Indexes(CreateCatalog[2], "categories", "ix_categories_parent_active")
  /\ Creates(CreateCatalog[3], "products")
  /\ Indexes(CreateCatalog[4], "products", "ix_products_category_active")
  /\ Indexes(CreateCatalog[5], "products", "ix_products_seller_active")
  /\ Indexes(CreateCatalog[6], "products", "ix_products_name")
  /\ Creates(CreateCatalog[7], "product_images")
  /\ Indexes(CreateCatalog[8], "product_images", "ix_product_images_product_position")
<1>1. \A n, t : LET o == create_table(n, t)
                IN  o.op = "create_table" /\ o.name = n /\ o.table = t
  BY DEF create_table
<1>2. /\ Creates(CreateAuth[1], "users") /\ Creates(CreateAuth[3], "roles")
      /\ Creates(CreateAuth[4], "permissions") /\ Creates(CreateAuth[5], "user_roles")
      /\ Creates(CreateAuth[6], "role_permissions") /\ Creates(CreateAuth[7], "refresh_tokens")
      /\ Creates(CreateAddresses[1], "addresses") /\ Creates(CreateCatalog[1], "categories")
      /\ Creates(CreateCatalog[3], "products") /\ Creates(CreateCatalog[7], "product_images")
  BY <1>1, Models, AuthOperations, CatalogOperations DEF Creates
<1>3. Indexes(CreateAuth[2], "users", "ix_users_email_lower")
  <2>1. /\ CreateAuth[2].op = "create_index" /\ CreateAuth[2].name = "users"
        /\ CreateAuth[2].index = Index("ix_users_email_lower", <<"lower(email)">>, TRUE)
    BY DEF CreateAuth, create_index
  <2> QED
    BY <2>1, IndexFacts, ModelIndexes DEF Indexes
<1>4. Indexes(CreateAuth[8], "refresh_tokens", "ix_refresh_tokens_user_active")
  <2>1. /\ CreateAuth[8].op = "create_index" /\ CreateAuth[8].name = "refresh_tokens"
        /\ CreateAuth[8].index =
             Index("ix_refresh_tokens_user_active", <<"user_id", "is_active">>, FALSE)
    BY DEF CreateAuth, create_index
  <2> QED
    BY <2>1, IndexFacts, ModelIndexes DEF Indexes
<1>5. Indexes(CreateAddresses[2], "addresses", "ix_addresses_user_type")
  <2>1. /\ CreateAddresses[2].op = "create_index" /\ CreateAddresses[2].name = "addresses"
        /\ CreateAddresses[2].index =
             Index("ix_addresses_user_type", <<"user_id", "address_type">>, FALSE)
    BY DEF CreateAddresses, create_index
  <2> QED
    BY <2>1, IndexFacts, ModelIndexes DEF Indexes
<1>6. Indexes(CreateCatalog[2], "categories", "ix_categories_parent_active")
  <2>1. /\ CreateCatalog[2].op = "create_index" /\ CreateCatalog[2].name = "categories"
        /\ CreateCatalog[2].index =
             Index("ix_categories_parent_active", <<"parent_id", "is_active">>, FALSE)
    BY DEF CreateCatalog, create_index
  <2> QED
    BY <2>1, IndexFacts, ModelIndexes DEF Indexes
<1>7. Indexes(CreateCatalog[4], "products", "ix_products_category_active")
  <2>1. /\ CreateCatalog[4].op = "create_index" /\ CreateCatalog[4].name = "products"
        /\ CreateCatalog[4].index =
             Index("ix_products_category_active", <<"category_id", "is_active">>, FALSE)
    BY DEF CreateCatalog, create_index
  <2> QED
    BY <2>1, IndexFacts, ModelIndexes DEF Indexes
<1>8. Indexes(CreateCatalog[5], "products", "ix_products_seller_active")
  <2>1. /\ CreateCatalog[5].op = "create_index" /\ CreateCatalog[5].name = "products"
        /\ CreateCatalog[5].index =
             Index("ix_products_seller_active", <<"seller_id", "is_active">>, FALSE)
    BY DEF CreateCatalog, create_index
  <2> QED
    BY <2>1, IndexFacts, ModelIndexes DEF Indexes
<1>9. Indexes(CreateCatalog[6], "products", "ix_products_name")
  <2>1. /\ CreateCatalog[6].op = "create_index" /\ CreateCatalog[6].name = "products"
        /\ CreateCatalog[6].index = Index("ix_products_name", <<"name">>, FALSE)
    BY DEF CreateCatalog, create_index
  <2> QED
    BY <2>1, IndexFacts, ModelIndexes DEF Indexes
<1>10. Indexes(CreateCatalog[8], "product_images", "ix_product_images_product_position")
  <2>1. /\ CreateCatalog[8].op = "create_index" /\ CreateCatalog[8].name = "product_images"
        /\ CreateCatalog[8].index =
             Index("ix_product_images_product_position", <<"product_id", "position">>, FALSE)
    BY DEF CreateCatalog, create_index
  <2> QED
    BY <2>1, IndexFacts, ModelIndexes DEF Indexes
<1> QED
  BY <1>2, <1>3, <1>4, <1>5, <1>6, <1>7, <1>8, <1>9, <1>10

LEMMA Downgrades ==
  /\ Unindexes(DropAuth[1], "refresh_tokens", "ix_refresh_tokens_user_active")
  /\ Drops(DropAuth[2], "refresh_tokens") /\ Drops(DropAuth[3], "role_permissions")
  /\ Drops(DropAuth[4], "user_roles") /\ Drops(DropAuth[5], "permissions")
  /\ Drops(DropAuth[6], "roles")
  /\ Unindexes(DropAuth[7], "users", "ix_users_email_lower") /\ Drops(DropAuth[8], "users")
  /\ Unindexes(DropAddresses[1], "addresses", "ix_addresses_user_type")
  /\ Drops(DropAddresses[2], "addresses")
  /\ Unindexes(DropCatalog[1], "product_images", "ix_product_images_product_position")
  /\ Drops(DropCatalog[2], "product_images")
  /\ Unindexes(DropCatalog[3], "products", "ix_products_name")
  /\ Unindexes(DropCatalog[4], "products", "ix_products_seller_active")
  /\ Unindexes(DropCatalog[5], "products", "ix_products_category_active")
  /\ Drops(DropCatalog[6], "products")
  /\ Unindexes(DropCatalog[7], "categories", "ix_categories_parent_active")
  /\ Drops(DropCatalog[8], "categories")
BY DEF DropAuth, DropAddresses, DropCatalog, drop_table, drop_index, Drops, Unindexes

\* An upgrade creates each table of its revision once, after those it refers to,
\* and each of its indexes once, after the table.
Builds(U, v) ==
  /\ \A k \in 1..Len(U) :
       /\ U[k].name \in Names /\ Since(U[k].name) = v
       /\ U[k].op \in {"create_table", "create_index"}
       /\ U[k].op = "create_table" =>
            /\ U[k].table = Indexed(Metadata[U[k].name], {})
            /\ \A j \in 1..(k - 1) : U[j].name # U[k].name
            /\ \A t \in FarEnds(U[k].name) :
                 t = U[k].name \/ Since(t) < v \/ Done(U, k, "create_table", t)
       /\ U[k].op = "create_index" =>
            /\ U[k].index \in Metadata[U[k].name].indexes
            /\ Done(U, k, "create_table", U[k].name)
            /\ ~DoneIndex(U, k, "create_index", U[k].name, U[k].index)
  /\ \A n \in Names : Since(n) = v =>
       /\ Done(U, Len(U) + 1, "create_table", n)
       /\ \A i \in Metadata[n].indexes : DoneIndex(U, Len(U) + 1, "create_index", n, i)

\* A downgrade drops each table of its revision once, after those that refer to
\* it, and before a table its indexes, if they are named at all.
Unbuilds(D, v) ==
  /\ \A k \in 1..Len(D) :
       /\ D[k].name \in Names /\ Since(D[k].name) = v
       /\ D[k].op \in {"drop_table", "drop_index"}
       /\ ~Done(D, k, "drop_table", D[k].name)
       /\ D[k].op = "drop_table" =>
            \A n \in Names \ {D[k].name} :
              D[k].name \in FarEnds(n) => Since(n) > v \/ Done(D, k, "drop_table", n)
       /\ D[k].op = "drop_index" =>
            /\ \E i \in Metadata[D[k].name].indexes : i.name = D[k].index
            /\ ~DoneIndex(D, k, "drop_index", D[k].name, D[k].index)
  /\ \A n \in Names : Since(n) = v => Done(D, Len(D) + 1, "drop_table", n)

\* The names of a table's indexes.
Named(n, name) == \E i \in Metadata[n].indexes : i.name = name

LEMMA IndexList ==
  /\ \A i \in Metadata["users"].indexes : i.name = "ix_users_email_lower"
  /\ \A n \in {"roles", "permissions", "user_roles", "role_permissions"} :
       Metadata[n].indexes = {}
  /\ \A i \in Metadata["refresh_tokens"].indexes : i.name = "ix_refresh_tokens_user_active"
  /\ \A i \in Metadata["addresses"].indexes : i.name = "ix_addresses_user_type"
  /\ \A i \in Metadata["categories"].indexes : i.name = "ix_categories_parent_active"
  /\ \A i \in Metadata["products"].indexes :
       i.name \in {"ix_products_category_active", "ix_products_seller_active", "ix_products_name"}
  /\ \A i \in Metadata["product_images"].indexes :
       i.name = "ix_product_images_product_position"
<1>1. \A i \in Metadata["users"].indexes : i.name = "ix_users_email_lower"
  BY IndexFacts, ModelIndexes
<1>2. \A i \in Metadata["refresh_tokens"].indexes : i.name = "ix_refresh_tokens_user_active"
  BY IndexFacts, ModelIndexes
<1>3. \A i \in Metadata["addresses"].indexes : i.name = "ix_addresses_user_type"
  BY IndexFacts, ModelIndexes
<1>4. \A i \in Metadata["categories"].indexes : i.name = "ix_categories_parent_active"
  BY IndexFacts, ModelIndexes
<1>5. \A i \in Metadata["products"].indexes :
        i.name \in {"ix_products_category_active", "ix_products_seller_active", "ix_products_name"}
  BY IndexFacts, ModelIndexes
<1>6. \A i \in Metadata["product_images"].indexes :
        i.name = "ix_product_images_product_position"
  BY IndexFacts, ModelIndexes
<1> QED
  BY <1>1, <1>2, <1>3, <1>4, <1>5, <1>6, ModelIndexes

LEMMA NamedIndexes ==
  /\ Named("users", "ix_users_email_lower")
  /\ Named("refresh_tokens", "ix_refresh_tokens_user_active")
  /\ Named("addresses", "ix_addresses_user_type")
  /\ Named("categories", "ix_categories_parent_active")
  /\ Named("products", "ix_products_category_active")
  /\ Named("products", "ix_products_seller_active")
  /\ Named("products", "ix_products_name")
  /\ Named("product_images", "ix_product_images_product_position")
BY Upgrades DEF Indexes, Named

LEMMA AuthBuilds == Builds(CreateAuth, 1)
<1> DEFINE U == CreateAuth
<1>1. \A k \in 1..8 : k = 1 \/ k = 2 \/ k = 3 \/ k = 4 \/ k = 5 \/ k = 6 \/ k = 7 \/ k = 8
  OBVIOUS
<1>2. Len(U) = 8
  BY AuthOperations
<1>3. ASSUME NEW k \in 1..8
      PROVE  /\ U[k].name \in Names /\ Since(U[k].name) = 1
             /\ U[k].op \in {"create_table", "create_index"}
             /\ U[k].op = "create_table" => U[k].table = Indexed(Metadata[U[k].name], {})
             /\ U[k].op = "create_index" => U[k].index \in Metadata[U[k].name].indexes
  BY <1>1, <1>3, Upgrades, AllNames DEF Creates, Indexes
<1>4. ASSUME NEW k \in 1..8, U[k].op = "create_table"
      PROVE  /\ \A j \in 1..(k - 1) : U[j].name # U[k].name
             /\ \A t \in FarEnds(U[k].name) :
                  t = U[k].name \/ Since(t) < 1 \/ Done(U, k, "create_table", t)
  BY <1>1, <1>4, Upgrades, AllNames, ModelEnds DEF Done, Creates, Indexes
<1>5. ASSUME NEW k \in 1..8, U[k].op = "create_index"
      PROVE  /\ Done(U, k, "create_table", U[k].name)
             /\ ~DoneIndex(U, k, "create_index", U[k].name, U[k].index)
  BY <1>1, <1>5, Upgrades DEF Done, DoneIndex, Creates, Indexes
<1>6. ASSUME NEW n \in Names, Since(n) = 1
      PROVE  Done(U, 8 + 1, "create_table", n)
  BY <1>6, Upgrades, AllNames DEF Done, Creates
<1>7. ASSUME NEW n \in Names, Since(n) = 1, NEW i \in Metadata[n].indexes
      PROVE  DoneIndex(U, 8 + 1, "create_index", n, i)
  <2>1. PICK k \in 1..8 : Indexes(U[k], n, i.name)
    BY <1>7, Upgrades, AllNames, IndexList
  <2>2. U[k].index = i
    BY <2>1, IndexNames DEF Indexes
  <2> QED
    BY <2>1, <2>2 DEF DoneIndex, Indexes
<1> QED
  BY <1>2, <1>3, <1>4, <1>5, <1>6, <1>7 DEF Builds

LEMMA AddressesBuild == Builds(CreateAddresses, 2)
<1> DEFINE U == CreateAddresses
<1>1. \A k \in 1..2 : k = 1 \/ k = 2
  OBVIOUS
<1>2. Len(U) = 2
  BY CatalogOperations
<1>3. ASSUME NEW k \in 1..2
      PROVE  /\ U[k].name \in Names /\ Since(U[k].name) = 2
             /\ U[k].op \in {"create_table", "create_index"}
             /\ U[k].op = "create_table" => U[k].table = Indexed(Metadata[U[k].name], {})
             /\ U[k].op = "create_index" => U[k].index \in Metadata[U[k].name].indexes
  BY <1>1, <1>3, Upgrades, AllNames DEF Creates, Indexes
<1>4. ASSUME NEW k \in 1..2, U[k].op = "create_table"
      PROVE  /\ \A j \in 1..(k - 1) : U[j].name # U[k].name
             /\ \A t \in FarEnds(U[k].name) :
                  t = U[k].name \/ Since(t) < 2 \/ Done(U, k, "create_table", t)
  BY <1>1, <1>4, Upgrades, AllNames, ModelEnds DEF Done, Creates, Indexes
<1>5. ASSUME NEW k \in 1..2, U[k].op = "create_index"
      PROVE  /\ Done(U, k, "create_table", U[k].name)
             /\ ~DoneIndex(U, k, "create_index", U[k].name, U[k].index)
  BY <1>1, <1>5, Upgrades DEF Done, DoneIndex, Creates, Indexes
<1>6. ASSUME NEW n \in Names, Since(n) = 2
      PROVE  Done(U, 2 + 1, "create_table", n)
  BY <1>6, Upgrades, AllNames DEF Done, Creates
<1>7. ASSUME NEW n \in Names, Since(n) = 2, NEW i \in Metadata[n].indexes
      PROVE  DoneIndex(U, 2 + 1, "create_index", n, i)
  <2>1. PICK k \in 1..2 : Indexes(U[k], n, i.name)
    BY <1>7, Upgrades, AllNames, IndexList
  <2>2. U[k].index = i
    BY <2>1, IndexNames DEF Indexes
  <2> QED
    BY <2>1, <2>2 DEF DoneIndex, Indexes
<1> QED
  BY <1>2, <1>3, <1>4, <1>5, <1>6, <1>7 DEF Builds

LEMMA CatalogBuilds == Builds(CreateCatalog, 3)
<1> DEFINE U == CreateCatalog
<1>1. \A k \in 1..8 : k = 1 \/ k = 2 \/ k = 3 \/ k = 4 \/ k = 5 \/ k = 6 \/ k = 7 \/ k = 8
  OBVIOUS
<1>2. Len(U) = 8
  BY CatalogOperations
<1>3. ASSUME NEW k \in 1..8
      PROVE  /\ U[k].name \in Names /\ Since(U[k].name) = 3
             /\ U[k].op \in {"create_table", "create_index"}
             /\ U[k].op = "create_table" => U[k].table = Indexed(Metadata[U[k].name], {})
             /\ U[k].op = "create_index" => U[k].index \in Metadata[U[k].name].indexes
  BY <1>1, <1>3, Upgrades, AllNames DEF Creates, Indexes
<1>4. ASSUME NEW k \in 1..8, U[k].op = "create_table"
      PROVE  /\ \A j \in 1..(k - 1) : U[j].name # U[k].name
             /\ \A t \in FarEnds(U[k].name) :
                  t = U[k].name \/ Since(t) < 3 \/ Done(U, k, "create_table", t)
  BY <1>1, <1>4, Upgrades, AllNames, ModelEnds DEF Done, Creates, Indexes
<1>5. ASSUME NEW k \in 1..8, U[k].op = "create_index"
      PROVE  /\ Done(U, k, "create_table", U[k].name)
             /\ ~DoneIndex(U, k, "create_index", U[k].name, U[k].index)
  BY <1>1, <1>5, Upgrades DEF Done, DoneIndex, Creates, Indexes
<1>6. ASSUME NEW n \in Names, Since(n) = 3
      PROVE  Done(U, 8 + 1, "create_table", n)
  BY <1>6, Upgrades, AllNames DEF Done, Creates
<1>7. ASSUME NEW n \in Names, Since(n) = 3, NEW i \in Metadata[n].indexes
      PROVE  DoneIndex(U, 8 + 1, "create_index", n, i)
  <2>1. PICK k \in 1..8 : Indexes(U[k], n, i.name)
    BY <1>7, Upgrades, AllNames, IndexList
  <2>2. U[k].index = i
    BY <2>1, IndexNames DEF Indexes
  <2> QED
    BY <2>1, <2>2 DEF DoneIndex, Indexes
<1> QED
  BY <1>2, <1>3, <1>4, <1>5, <1>6, <1>7 DEF Builds

LEMMA AuthUnbuilds == Unbuilds(DropAuth, 1)
<1> DEFINE D == DropAuth
<1>1. \A k \in 1..8 : k = 1 \/ k = 2 \/ k = 3 \/ k = 4 \/ k = 5 \/ k = 6 \/ k = 7 \/ k = 8
  OBVIOUS
<1>2. Len(D) = 8
  BY DropOperations
<1>3. ASSUME NEW k \in 1..8
      PROVE  /\ D[k].name \in Names /\ Since(D[k].name) = 1
             /\ D[k].op \in {"drop_table", "drop_index"}
             /\ ~Done(D, k, "drop_table", D[k].name)
  BY <1>1, <1>3, Downgrades, AllNames DEF Done, Drops, Unindexes
<1>4. ASSUME NEW k \in 1..8, D[k].op = "drop_table",
             NEW n \in Names \ {D[k].name}, D[k].name \in FarEnds(n)
      PROVE  Since(n) > 1 \/ Done(D, k, "drop_table", n)
  BY <1>1, <1>4, Downgrades, AllNames, ModelEnds DEF Done, Drops, Unindexes
<1>5. ASSUME NEW k \in 1..8, D[k].op = "drop_index"
      PROVE  /\ Named(D[k].name, D[k].index)
             /\ ~DoneIndex(D, k, "drop_index", D[k].name, D[k].index)
  <2>1. Named(D[k].name, D[k].index)
    BY <1>1, <1>5, Downgrades, NamedIndexes DEF Drops, Unindexes
  <2>2. ~DoneIndex(D, k, "drop_index", D[k].name, D[k].index)
    BY <1>1, <1>5, Downgrades DEF DoneIndex, Drops, Unindexes
  <2> QED
    BY <2>1, <2>2
<1>6. ASSUME NEW n \in Names, Since(n) = 1
      PROVE  Done(D, 8 + 1, "drop_table", n)
  BY <1>6, Downgrades, AllNames DEF Done, Drops
<1> QED
  BY <1>2, <1>3, <1>4, <1>5, <1>6 DEF Unbuilds, Named

LEMMA AddressesUnbuild == Unbuilds(DropAddresses, 2)
<1> DEFINE D == DropAddresses
<1>1. \A k \in 1..2 : k = 1 \/ k = 2
  OBVIOUS
<1>2. Len(D) = 2
  BY DropOperations
<1>3. ASSUME NEW k \in 1..2
      PROVE  /\ D[k].name \in Names /\ Since(D[k].name) = 2
             /\ D[k].op \in {"drop_table", "drop_index"}
             /\ ~Done(D, k, "drop_table", D[k].name)
  BY <1>1, <1>3, Downgrades, AllNames DEF Done, Drops, Unindexes
<1>4. ASSUME NEW k \in 1..2, D[k].op = "drop_table",
             NEW n \in Names \ {D[k].name}, D[k].name \in FarEnds(n)
      PROVE  Since(n) > 2 \/ Done(D, k, "drop_table", n)
  BY <1>1, <1>4, Downgrades, AllNames, ModelEnds DEF Done, Drops, Unindexes
<1>5. ASSUME NEW k \in 1..2, D[k].op = "drop_index"
      PROVE  /\ Named(D[k].name, D[k].index)
             /\ ~DoneIndex(D, k, "drop_index", D[k].name, D[k].index)
  <2>1. Named(D[k].name, D[k].index)
    BY <1>1, <1>5, Downgrades, NamedIndexes DEF Drops, Unindexes
  <2>2. ~DoneIndex(D, k, "drop_index", D[k].name, D[k].index)
    BY <1>1, <1>5, Downgrades DEF DoneIndex, Drops, Unindexes
  <2> QED
    BY <2>1, <2>2
<1>6. ASSUME NEW n \in Names, Since(n) = 2
      PROVE  Done(D, 2 + 1, "drop_table", n)
  BY <1>6, Downgrades, AllNames DEF Done, Drops
<1> QED
  BY <1>2, <1>3, <1>4, <1>5, <1>6 DEF Unbuilds, Named

LEMMA CatalogUnbuilds == Unbuilds(DropCatalog, 3)
<1> DEFINE D == DropCatalog
<1>1. \A k \in 1..8 : k = 1 \/ k = 2 \/ k = 3 \/ k = 4 \/ k = 5 \/ k = 6 \/ k = 7 \/ k = 8
  OBVIOUS
<1>2. Len(D) = 8
  BY DropOperations
<1>3. ASSUME NEW k \in 1..8
      PROVE  /\ D[k].name \in Names /\ Since(D[k].name) = 3
             /\ D[k].op \in {"drop_table", "drop_index"}
             /\ ~Done(D, k, "drop_table", D[k].name)
  BY <1>1, <1>3, Downgrades, AllNames DEF Done, Drops, Unindexes
<1>4. ASSUME NEW k \in 1..8, D[k].op = "drop_table",
             NEW n \in Names \ {D[k].name}, D[k].name \in FarEnds(n)
      PROVE  Since(n) > 3 \/ Done(D, k, "drop_table", n)
  BY <1>1, <1>4, Downgrades, AllNames, ModelEnds DEF Done, Drops, Unindexes
<1>5. ASSUME NEW k \in 1..8, D[k].op = "drop_index"
      PROVE  /\ Named(D[k].name, D[k].index)
             /\ ~DoneIndex(D, k, "drop_index", D[k].name, D[k].index)
  <2>1. Named(D[k].name, D[k].index)
    BY <1>1, <1>5, Downgrades, NamedIndexes DEF Drops, Unindexes
  <2>2. ~DoneIndex(D, k, "drop_index", D[k].name, D[k].index)
    BY <1>1, <1>5, Downgrades DEF DoneIndex, Drops, Unindexes
  <2> QED
    BY <2>1, <2>2
<1>6. ASSUME NEW n \in Names, Since(n) = 3
      PROVE  Done(D, 8 + 1, "drop_table", n)
  BY <1>6, Downgrades, AllNames DEF Done, Drops
<1> QED
  BY <1>2, <1>3, <1>4, <1>5, <1>6 DEF Unbuilds, Named

LEMMA Revisions ==
  ASSUME NEW v \in 1..3
  PROVE  Builds(Upgrade[v], v) /\ Unbuilds(Downgrade[v], v)
<1>1. v = 1 \/ v = 2 \/ v = 3
  OBVIOUS
<1> QED
  BY <1>1, AuthBuilds, AddressesBuild, CatalogBuilds, AuthUnbuilds, AddressesUnbuild,
     CatalogUnbuilds, AuthOperations, CatalogOperations, DropOperations

LEMMA Lengths ==
  ASSUME NEW v \in 1..3
  PROVE  /\ Len(Upgrade[v]) \in Nat \ {0} /\ Len(Downgrade[v]) \in Nat \ {0}
         /\ DOMAIN Upgrade[v] = 1..Len(Upgrade[v])
<1>1. v = 1 \/ v = 2 \/ v = 3
  OBVIOUS
<1>2. DOMAIN CreateAuth = 1..8
  BY DEF CreateAuth
<1>3. DOMAIN CreateAddresses = 1..2
  BY DEF CreateAddresses
<1>4. DOMAIN CreateCatalog = 1..8
  BY DEF CreateCatalog
<1>5. CASE v = 1
  BY <1>2, <1>5, AuthOperations, DropOperations
<1>6. CASE v = 2
  BY <1>3, <1>6, CatalogOperations, DropOperations
<1>7. CASE v = 3
  BY <1>4, <1>7, CatalogOperations, DropOperations
<1> QED
  BY <1>1, <1>5, <1>6, <1>7
-----------------------------------------------------------------------------
(* The plan: what each operation makes of it.                              *)

LEMMA IndexedFields ==
  ASSUME NEW t, NEW S
  PROVE  /\ Indexed(t, S).required = t.required
         /\ Indexed(t, S).references = t.references
         /\ Indexed(t, S).indexes = S
         /\ \A o : o.op = "create_index" =>
              Result(o, Indexed(t, S)) = Indexed(t, S \cup {o.index})
         /\ \A o : o.op = "drop_index" =>
              Result(o, Indexed(t, S)) = Indexed(t, {i \in S : i.name # o.index})
BY DEF Indexed, Table, Result

LEMMA MissingFields ==
  /\ Missing.required = {} /\ Missing.references = {} /\ Missing.indexes = {}
  /\ \A n \in Names : Metadata[n] # Missing
  /\ \A n \in Names : \A S : Indexed(Metadata[n], S) # Missing
<1>1. Missing.required = {} /\ Missing.references = {} /\ Missing.indexes = {}
  BY TableFields DEF Missing
<1> QED
  BY <1>1, ModelTables, IndexedFields

\* At one version a table is there exactly when its revision is.
LEMMA CutFacts ==
  ASSUME NEW n \in Names, NEW v \in Versions
  PROVE  /\ Cut(v, n) = Missing <=> Since(n) > v
         /\ Cut(v, n) # Missing => Cut(v, n) = Metadata[n]
         /\ v # 0 /\ Since(n) # v => Cut(v, n) = Cut(v - 1, n)
BY AllNames, MissingFields DEF Cut, Versions

LEMMA DoneNothing ==
  ASSUME NEW ops, NEW kind, NEW n
  PROVE  ~Done(ops, 1, kind, n) /\ \A index : ~DoneIndex(ops, 1, kind, n, index)
BY DEF Done, DoneIndex

LEMMA DoneNext ==
  ASSUME NEW ops, NEW k \in Nat \ {0}, NEW kind, NEW n
  PROVE  /\ Done(ops, k + 1, kind, n) <=>
              Done(ops, k, kind, n) \/ (ops[k].op = kind /\ ops[k].name = n)
         /\ \A index : DoneIndex(ops, k + 1, kind, n, index) <=>
              \/ DoneIndex(ops, k, kind, n, index)
              \/ ops[k].op = kind /\ ops[k].name = n /\ ops[k].index = index
<1>1. 1..((k + 1) - 1) = 1..(k - 1) \cup {k}
  OBVIOUS
<1> QED
  BY <1>1 DEF Done, DoneIndex

\* A revision's upgrade leads from the version before it to its own, its
\* downgrade the other way.
LEMMA PlanEnds ==
  ASSUME NEW v \in 1..3, NEW n \in Names
  PROVE  /\ Rising(v, 1, n) = Cut(v - 1, n)
         /\ Rising(v, Len(Upgrade[v]) + 1, n) = Cut(v, n)
         /\ Falling(v, 1, n) = Cut(v, n)
         /\ Falling(v, Len(Downgrade[v]) + 1, n) = Cut(v - 1, n)
<1>1. Since(n) # v => Cut(v, n) = Cut(v - 1, n)
  BY CutFacts DEF Versions
<1>2. Since(n) = v => Cut(v, n) = Metadata[n] /\ Cut(v - 1, n) = Missing
  BY AllNames DEF Cut
<1>3. Rising(v, 1, n) = Cut(v - 1, n)
  BY <1>2, DoneNothing DEF Rising
<1>4. Rising(v, Len(Upgrade[v]) + 1, n) = Cut(v, n)
  <2>1. CASE Since(n) = v
    <3> DEFINE k == Len(Upgrade[v]) + 1
    <3>1. /\ Done(Upgrade[v], k, "create_table", n)
          /\ \A i \in Metadata[n].indexes : DoneIndex(Upgrade[v], k, "create_index", n, i)
      BY <2>1, Revisions DEF Builds
    <3> HIDE DEF k
    <3>2. {i \in Metadata[n].indexes : DoneIndex(Upgrade[v], k, "create_index", n, i)}
            = Metadata[n].indexes
      BY <3>1
    <3>3. Rising(v, k, n) = Metadata[n]
      BY <2>1, <3>1, <3>2, ModelTables DEF Rising
    <3> QED
      BY <2>1, <1>2, <3>3 DEF k
  <2> QED
    BY <2>1, <1>1 DEF Rising
<1>5. Falling(v, 1, n) = Cut(v, n)
  <2>1. CASE Since(n) = v
    <3>1. {i \in Metadata[n].indexes :
             ~DoneIndex(Downgrade[v], 1, "drop_index", n, i.name)} = Metadata[n].indexes
      BY DoneNothing
    <3> QED
      BY <2>1, <1>2, <3>1, DoneNothing, ModelTables DEF Falling
  <2> QED
    BY <2>1 DEF Falling
<1>6. Falling(v, Len(Downgrade[v]) + 1, n) = Cut(v - 1, n)
  BY <1>1, <1>2, Revisions DEF Falling, Unbuilds
<1> QED
  BY <1>3, <1>4, <1>5, <1>6

LEMMA RisingNext ==
  ASSUME NEW v \in 1..3, NEW k \in 1..Len(Upgrade[v]), NEW n \in Names
  PROVE  Rising(v, k + 1, n) =
           IF n = Upgrade[v][k].name THEN Result(Upgrade[v][k], Rising(v, k, n))
           ELSE Rising(v, k, n)
<1> DEFINE U == Upgrade[v]
<1>0. k \in Nat \ {0} /\ k \in 1..Len(U)
  BY Lengths
<1>1. /\ Since(U[k].name) = v
      /\ U[k].op \in {"create_table", "create_index"}
      /\ U[k].op = "create_table" =>
           /\ U[k].table = Indexed(Metadata[U[k].name], {})
           /\ \A j \in 1..(k - 1) : U[j].name # U[k].name
      /\ U[k].op = "create_index" =>
           /\ U[k].index \in Metadata[U[k].name].indexes
           /\ Done(U, k, "create_table", U[k].name)
  BY <1>0, Revisions DEF Builds
<1> HIDE DEF U
<1>2. /\ Done(U, k + 1, "create_table", n) <=>
           Done(U, k, "create_table", n) \/ (U[k].op = "create_table" /\ U[k].name = n)
      /\ \A i : DoneIndex(U, k + 1, "create_index", n, i) <=>
           \/ DoneIndex(U, k, "create_index", n, i)
           \/ U[k].op = "create_index" /\ U[k].name = n /\ U[k].index = i
  BY <1>0, DoneNext
<1>3. CASE n # U[k].name
  <2>1. \A i : DoneIndex(U, k + 1, "create_index", n, i) <=> DoneIndex(U, k, "create_index", n, i)
    BY <1>2, <1>3
  <2>2. {i \in Metadata[n].indexes : DoneIndex(U, k + 1, "create_index", n, i)}
          = {i \in Metadata[n].indexes : DoneIndex(U, k, "create_index", n, i)}
    BY <2>1
  <2> QED
    BY <1>2, <1>3, <2>2 DEF Rising, U
<1>4. CASE n = U[k].name /\ U[k].op = "create_table"
  <2>1. \A i : ~DoneIndex(U, k + 1, "create_index", n, i)
    BY <1>1, <1>2, <1>4 DEF DoneIndex
  <2>2. {i \in Metadata[n].indexes : DoneIndex(U, k + 1, "create_index", n, i)} = {}
    BY <2>1
  <2>3. Rising(v, k + 1, n) = Indexed(Metadata[n], {})
    BY <1>1, <1>2, <1>4, <2>2 DEF Rising, U
  <2>4. Result(U[k], Rising(v, k, n)) = Indexed(Metadata[n], {})
    BY <1>1, <1>4 DEF Result
  <2> QED
    BY <1>4, <2>3, <2>4 DEF U
<1>5. CASE n = U[k].name /\ U[k].op = "create_index"
  <2> DEFINE S == {i \in Metadata[n].indexes : DoneIndex(U, k, "create_index", n, i)}
             T == {i \in Metadata[n].indexes : DoneIndex(U, k + 1, "create_index", n, i)}
  <2>1. T = S \cup {U[k].index}
    BY <1>1, <1>2, <1>5
  <2>2. Rising(v, k, n) = Indexed(Metadata[n], S) /\ Rising(v, k + 1, n) = Indexed(Metadata[n], T)
    BY <1>1, <1>2, <1>5 DEF Rising, U
  <2> HIDE DEF S, T
  <2>3. Result(U[k], Rising(v, k, n)) = Indexed(Metadata[n], T)
    BY <1>5, <2>1, <2>2, IndexedFields
  <2> QED
    BY <1>5, <2>2, <2>3 DEF U
<1> QED
  BY <1>1, <1>3, <1>4, <1>5 DEF U

LEMMA FallingNext ==
  ASSUME NEW v \in 1..3, NEW k \in 1..Len(Downgrade[v]), NEW n \in Names
  PROVE  Falling(v, k + 1, n) =
           IF n = Downgrade[v][k].name THEN Result(Downgrade[v][k], Falling(v, k, n))
           ELSE Falling(v, k, n)
<1> DEFINE D == Downgrade[v]
<1>0. k \in Nat \ {0} /\ k \in 1..Len(D)
  BY Lengths
<1>1. /\ Since(D[k].name) = v
      /\ D[k].op \in {"drop_table", "drop_index"}
      /\ ~Done(D, k, "drop_table", D[k].name)
  BY <1>0, Revisions DEF Unbuilds
<1> HIDE DEF D
<1>2. /\ Done(D, k + 1, "drop_table", n) <=>
           Done(D, k, "drop_table", n) \/ (D[k].op = "drop_table" /\ D[k].name = n)
      /\ \A i : DoneIndex(D, k + 1, "drop_index", n, i) <=>
           \/ DoneIndex(D, k, "drop_index", n, i)
           \/ D[k].op = "drop_index" /\ D[k].name = n /\ D[k].index = i
  BY <1>0, DoneNext
<1>3. CASE n # D[k].name
  <2>1. \A i : DoneIndex(D, k + 1, "drop_index", n, i) <=> DoneIndex(D, k, "drop_index", n, i)
    BY <1>2, <1>3
  <2>2. {i \in Metadata[n].indexes : ~DoneIndex(D, k + 1, "drop_index", n, i.name)}
          = {i \in Metadata[n].indexes : ~DoneIndex(D, k, "drop_index", n, i.name)}
    BY <2>1
  <2> QED
    BY <1>2, <1>3, <2>2 DEF Falling, D
<1>4. CASE n = D[k].name /\ D[k].op = "drop_table"
  <2>1. Falling(v, k + 1, n) = Missing
    BY <1>1, <1>2, <1>4 DEF Falling, D
  <2>2. Result(D[k], Falling(v, k, n)) = Missing
    BY <1>4 DEF Result
  <2> QED
    BY <1>4, <2>1, <2>2 DEF D
<1>5. CASE n = D[k].name /\ D[k].op = "drop_index"
  <2> DEFINE S == {i \in Metadata[n].indexes : ~DoneIndex(D, k, "drop_index", n, i.name)}
             T == {i \in Metadata[n].indexes : ~DoneIndex(D, k + 1, "drop_index", n, i.name)}
  <2>1. T = {i \in S : i.name # D[k].index}
    BY <1>2, <1>5
  <2>2. Falling(v, k, n) = Indexed(Metadata[n], S) /\ Falling(v, k + 1, n) = Indexed(Metadata[n], T)
    BY <1>1, <1>2, <1>5 DEF Falling, D
  <2> HIDE DEF S, T
  <2>3. Result(D[k], Falling(v, k, n)) = Indexed(Metadata[n], T)
    BY <1>5, <2>1, <2>2, IndexedFields
  <2> QED
    BY <1>5, <2>2, <2>3 DEF D
<1> QED
  BY <1>1, <1>3, <1>4, <1>5 DEF D

LEMMA CutFields ==
  ASSUME NEW n \in Names, NEW v \in Versions, Cut(v, n) # Missing
  PROVE  Cut(v, n).references = Metadata[n].references /\ Cut(v, n).indexes = Metadata[n].indexes
BY CutFacts

LEMMA RisingShape ==
  ASSUME NEW v \in 1..3, NEW k, NEW n \in Names
  PROVE  LET t == Rising(v, k, n)
         IN  /\ t # Missing <=>
                  Since(n) < v \/ (Since(n) = v /\ Done(Upgrade[v], k, "create_table", n))
             /\ t # Missing => t.references = Metadata[n].references
             /\ t.indexes \subseteq Metadata[n].indexes
             /\ Since(n) = v =>
                  \A i \in t.indexes : DoneIndex(Upgrade[v], k, "create_index", n, i)
<1> DEFINE t == Rising(v, k, n)
           S == {i \in Metadata[n].indexes : DoneIndex(Upgrade[v], k, "create_index", n, i)}
<1>0. Since(n) \in Nat /\ v \in Nat /\ v - 1 \in Versions
  BY AllNames DEF Versions
<1>1. CASE Since(n) # v
  <2>1. t = Cut(v - 1, n)
    BY <1>1 DEF Rising
  <2>2. Missing.indexes = {}
    BY MissingFields
  <2> QED
    BY <1>0, <1>1, <2>1, <2>2, CutFacts, CutFields
<1>2. CASE Since(n) = v /\ Done(Upgrade[v], k, "create_table", n)
  <2>1. t = Indexed(Metadata[n], S)
    BY <1>2 DEF Rising
  <2> QED
    BY <1>2, <2>1, IndexedFields, MissingFields
<1>3. CASE Since(n) = v /\ ~Done(Upgrade[v], k, "create_table", n)
  <2>1. t = Missing
    BY <1>3 DEF Rising
  <2> QED
    BY <1>0, <1>3, <2>1, MissingFields
<1> QED
  BY <1>1, <1>2, <1>3

LEMMA FallingShape ==
  ASSUME NEW v \in 1..3, NEW k, NEW n \in Names
  PROVE  LET t == Falling(v, k, n)
         IN  /\ t # Missing <=>
                  Since(n) < v \/ (Since(n) = v /\ ~Done(Downgrade[v], k, "drop_table", n))
             /\ t # Missing => t.references = Metadata[n].references
             /\ t # Missing /\ Since(n) = v =>
                  \A i \in Metadata[n].indexes :
                    ~DoneIndex(Downgrade[v], k, "drop_index", n, i.name) => i \in t.indexes
<1> DEFINE t == Falling(v, k, n)
           S == {i \in Metadata[n].indexes :
                   ~DoneIndex(Downgrade[v], k, "drop_index", n, i.name)}
<1>0. Since(n) \in Nat /\ v \in Nat /\ v \in Versions
  BY AllNames DEF Versions
<1>1. CASE Since(n) # v
  <2>1. t = Cut(v, n)
    BY <1>1 DEF Falling
  <2> QED
    BY <1>0, <1>1, <2>1, CutFacts, CutFields
<1>2. CASE Since(n) = v /\ ~Done(Downgrade[v], k, "drop_table", n)
  <2>1. t = Indexed(Metadata[n], S)
    BY <1>2 DEF Falling
  <2>2. t # Missing /\ t.references = Metadata[n].references /\ t.indexes = S
    BY <2>1, IndexedFields, MissingFields
  <2>3. \A i \in Metadata[n].indexes :
          ~DoneIndex(Downgrade[v], k, "drop_index", n, i.name) => i \in t.indexes
    BY <2>2
  <2> QED
    BY <1>2, <2>2, <2>3
<1>3. CASE Since(n) = v /\ Done(Downgrade[v], k, "drop_table", n)
  <2>1. t = Missing
    BY <1>3 DEF Falling
  <2> QED
    BY <1>0, <1>3, <2>1
<1> QED
  BY <1>1, <1>2, <1>3

\* On a database that is as planned every operation does its work.
LEMMA UpgradeWorks ==
  ASSUME NEW v \in 1..3, NEW k \in 1..Len(Upgrade[v]),
         NEW view, \A n \in Names : view[n] = Rising(v, k, n)
  PROVE  Applies(Upgrade[v][k], view) /\ ~Refused(Upgrade[v][k], view)
<1> DEFINE U == Upgrade[v]
           o == Upgrade[v][k]
<1>1. /\ o.name \in Names /\ Since(o.name) = v
      /\ o.op \in {"create_table", "create_index"}
      /\ o.op = "create_table" =>
           /\ o.table = Indexed(Metadata[o.name], {})
           /\ \A j \in 1..(k - 1) : U[j].name # o.name
           /\ \A t \in FarEnds(o.name) :
                t = o.name \/ Since(t) < v \/ Done(U, k, "create_table", t)
      /\ o.op = "create_index" =>
           /\ o.index \in Metadata[o.name].indexes
           /\ Done(U, k, "create_table", o.name)
           /\ ~DoneIndex(U, k, "create_index", o.name, o.index)
  BY Revisions DEF Builds
<1>2. ~Refused(o, view)
  BY <1>1 DEF Refused
<1>3. CASE o.op = "create_table"
  <2>1. view[o.name] = Missing
    <3>1. ~Done(U, k, "create_table", o.name)
      BY <1>1, <1>3 DEF Done
    <3> QED
      BY <1>1, <3>1, RisingShape
  <2>2. ASSUME NEW r \in o.table.references, r.table # o.name
        PROVE  view[r.table] # Missing
    <3>1. r \in Metadata[o.name].references
      BY <1>1, <1>3, IndexedFields
    <3>2. r.table \in Names /\ r.table \in FarEnds(o.name)
      BY <1>1, <3>1, EndsEarlier DEF FarEnds
    <3>3. Since(r.table) < v \/ Done(U, k, "create_table", r.table)
      BY <1>1, <1>3, <2>2, <3>2
    <3>4. Since(r.table) <= v /\ Since(r.table) \in Nat /\ v \in Nat
      BY <1>1, <3>1, <3>2, EndsEarlier, AllNames
    <3> QED
      BY <3>2, <3>3, <3>4, RisingShape
  <2> QED
    BY <1>2, <1>3, <2>1, <2>2 DEF Applies
<1>4. CASE o.op = "create_index"
  <2>1. view[o.name] # Missing
    BY <1>1, <1>4, RisingShape
  <2>2. ASSUME NEW n \in Names, o.index \in view[n].indexes
        PROVE  FALSE
    <3>1. o.index \in Metadata[n].indexes
      BY <2>2, RisingShape
    <3>2. n = o.name
      BY <1>1, <1>4, <3>1, IndexNames
    <3>3. DoneIndex(U, k, "create_index", o.name, o.index)
      BY <1>1, <2>2, <3>2, RisingShape
    <3> QED
      BY <1>1, <1>4, <3>3
  <2> QED
    BY <1>2, <1>4, <2>1, <2>2 DEF Applies
<1> QED
  BY <1>1, <1>3, <1>4

LEMMA DowngradeWorks ==
  ASSUME NEW v \in 1..3, NEW k \in 1..Len(Downgrade[v]),
         NEW view, \A n \in Names : view[n] = Falling(v, k, n)
  PROVE  Applies(Downgrade[v][k], view) /\ ~Refused(Downgrade[v][k], view)
<1> DEFINE D == Downgrade[v]
           o == Downgrade[v][k]
<1>1. /\ o.name \in Names /\ Since(o.name) = v
      /\ o.op \in {"drop_table", "drop_index"}
      /\ ~Done(D, k, "drop_table", o.name)
      /\ o.op = "drop_table" =>
           \A n \in Names \ {o.name} :
             o.name \in FarEnds(n) => Since(n) > v \/ Done(D, k, "drop_table", n)
      /\ o.op = "drop_index" =>
           /\ \E i \in Metadata[o.name].indexes : i.name = o.index
           /\ ~DoneIndex(D, k, "drop_index", o.name, o.index)
  BY Revisions DEF Unbuilds
<1>2. view[o.name] # Missing
  BY <1>1, FallingShape
<1>3. CASE o.op = "drop_table"
  <2>1. ASSUME NEW n \in Names \ {o.name}, NEW r \in view[n].references, r.table = o.name
        PROVE  FALSE
    <3>1. view[n] # Missing
      BY <2>1, MissingFields
    <3>2. r \in Metadata[n].references
      BY <2>1, <3>1, FallingShape
    <3>3. o.name \in FarEnds(n)
      BY <2>1, <3>2 DEF FarEnds
    <3>4. Since(n) > v \/ Done(D, k, "drop_table", n)
      BY <1>1, <1>3, <3>3
    <3>5. Since(n) \in Nat /\ v \in Nat
      BY AllNames
    <3>6. view[n] = Falling(v, k, n) /\ n \in Names
      OBVIOUS
    <3>7. Since(n) < v \/ (Since(n) = v /\ ~Done(D, k, "drop_table", n))
      BY <3>1, <3>6, FallingShape
    <3>8. v <= Since(n)
      BY <1>1, <2>1, <3>2, EndsEarlier
    <3> QED
      BY <3>4, <3>5, <3>7, <3>8
  <2> QED
    BY <1>2, <1>3, <2>1 DEF Applies, Refused
<1>4. CASE o.op = "drop_index"
  <2>1. PICK i \in Metadata[o.name].indexes : i.name = o.index
    BY <1>1, <1>4
  <2>2. i \in view[o.name].indexes
    BY <1>1, <1>2, <1>4, <2>1, FallingShape
  <2> QED
    BY <1>4, <2>1, <2>2 DEF Applies, Refused
<1> QED
  BY <1>1, <1>3, <1>4

-----------------------------------------------------------------------------
(* A command and its plan.                                                 *)

LEMMA Directions ==
  ASSUME Types, NEW m \in Migrators, at[m] # goal[m]
  PROVE  goal[m] > at[m] \/ goal[m] < at[m]
BY DEF Types, Versions

LEMMA GoesUp ==
  ASSUME Types, NEW m \in Migrators, goal[m] > at[m]
  PROVE  /\ at[m] + 1 \in 1..3 /\ Operations(m) = Upgrade[at[m] + 1] /\ Target(m) = at[m] + 1
         /\ \A n : Planned(m, n) = Rising(at[m] + 1, step[m], n)
<1>1. at[m] \in 0..3 /\ goal[m] \in 0..3
  BY DEF Types, Versions
<1> QED
  BY <1>1 DEF Operations, Target, Planned

LEMMA GoesDown ==
  ASSUME Types, NEW m \in Migrators, goal[m] < at[m]
  PROVE  /\ at[m] \in 1..3 /\ Operations(m) = Downgrade[at[m]] /\ Target(m) = at[m] - 1
         /\ \A n : Planned(m, n) = Falling(at[m], step[m], n)
<1>1. at[m] \in 0..3 /\ goal[m] \in 0..3
  BY DEF Types, Versions
<1>2. ~(goal[m] > at[m])
  BY <1>1
<1> QED
  BY <1>1, <1>2 DEF Operations, Target, Planned

\* The plan has not changed what the revision has not worked on.
LEMMA Untouched ==
  ASSUME Types, NEW m \in Migrators, at[m] # goal[m],
         NEW n \in Names, n \notin Worked(m)
  PROVE  Planned(m, n) = Cut(at[m], n)
<1>0. at[m] \in Versions /\ at[m] \in Nat /\ Since(n) \in Nat
  BY AllNames DEF Types, Versions
<1>1. CASE goal[m] > at[m]
  <2> DEFINE v == at[m] + 1
  <2>1. Operations(m) = Upgrade[v] /\ Planned(m, n) = Rising(v, step[m], n)
    BY <1>1, GoesUp
  <2>2. ~Done(Upgrade[v], step[m], "create_table", n)
    BY <2>1 DEF Worked, Done
  <2>3. Since(n) = v => Cut(at[m], n) = Missing
    BY <1>0 DEF Cut
  <2>4. v - 1 = at[m]
    BY <1>0
  <2> QED
    BY <2>1, <2>2, <2>3, <2>4 DEF Rising
<1>2. CASE goal[m] < at[m]
  <2> DEFINE v == at[m]
             S == {i \in Metadata[n].indexes :
                     ~DoneIndex(Downgrade[v], step[m], "drop_index", n, i.name)}
  <2>1. Operations(m) = Downgrade[v] /\ Planned(m, n) = Falling(v, step[m], n)
    BY <1>2, GoesDown
  <2>2. ~Done(Downgrade[v], step[m], "drop_table", n) /\ S = Metadata[n].indexes
    BY <2>1 DEF Worked, Done, DoneIndex
  <2>3. Metadata[n] = Indexed(Metadata[n], S)
    BY <2>2, ModelTables
  <2>4. Since(n) = v => Cut(v, n) = Metadata[n]
    BY <1>0 DEF Cut
  <2> QED
    BY <2>1, <2>2, <2>3, <2>4 DEF Falling
<1> QED
  BY <1>1, <1>2, Directions

\* With the stamp, or with the database at the version it works from, a command
\* sees what it planned.
LEMMA ViewIsPlan ==
  ASSUME Types, NEW m \in Migrators, pc[m] = "run", Follows(m),
         stamped[m] # {} \/ Stands(at[m])
  PROVE  \A n \in Names : View(m)[n] = Planned(m, n)
<1>1. CASE stamped[m] # {}
  BY <1>1 DEF Follows, Owns
<1>2. CASE stamped[m] = {}
  <2>1. Holds(m) /\ Stands(at[m])
    BY <1>2 DEF Follows
  <2>2. ASSUME NEW n \in Names
        PROVE  View(m)[n] = Planned(m, n)
    <3>1. CASE n \in DOMAIN draft[m]
      BY <2>1, <3>1 DEF View, Holds
    <3>2. CASE n \notin DOMAIN draft[m]
      <4>1. View(m)[n] = Cut(at[m], n)
        BY <2>1, <3>2 DEF View, Stands
      <4>2. n \notin Worked(m) /\ at[m] # goal[m]
        BY <2>1, <3>2 DEF Holds
      <4> QED
        BY <4>1, <4>2, Untouched
    <3> QED
      BY <3>1, <3>2
  <2> QED
    BY <2>2
<1> QED
  BY <1>1, <1>2

LEMMA OperationWorks ==
  ASSUME Types, NEW m \in Migrators, at[m] # goal[m], step[m] <= Len(Operations(m)),
         \A n \in Names : View(m)[n] = Planned(m, n)
  PROVE  LET o == Operations(m)[step[m]]
         IN  Applies(o, View(m)) /\ ~Refused(o, View(m))
<1>1. step[m] \in Nat \ {0}
  BY DEF Types
<1>2. CASE goal[m] > at[m]
  <2>1. /\ at[m] + 1 \in 1..3 /\ Operations(m) = Upgrade[at[m] + 1]
        /\ \A n : Planned(m, n) = Rising(at[m] + 1, step[m], n)
    BY <1>2, GoesUp
  <2>2. step[m] \in 1..Len(Upgrade[at[m] + 1])
    BY <1>1, <2>1, Lengths
  <2> QED
    BY <2>1, <2>2, UpgradeWorks
<1>3. CASE goal[m] < at[m]
  <2>1. /\ at[m] \in 1..3 /\ Operations(m) = Downgrade[at[m]]
        /\ \A n : Planned(m, n) = Falling(at[m], step[m], n)
    BY <1>3, GoesDown
  <2>2. step[m] \in 1..Len(Downgrade[at[m]])
    BY <1>1, <2>1, Lengths
  <2> QED
    BY <2>1, <2>2, DowngradeWorks
<1> QED
  BY <1>2, <1>3, Directions

LEMMA PlanNext ==
  ASSUME Types, NEW m \in Migrators, at[m] # goal[m], step[m] <= Len(Operations(m)),
         at' = at, goal' = goal, step' = [step EXCEPT ![m] = @ + 1], NEW n \in Names
  PROVE  LET o == Operations(m)[step[m]]
         IN  Planned(m, n)' = IF n = o.name THEN Result(o, Planned(m, n)) ELSE Planned(m, n)
<1>1. step[m] \in Nat \ {0} /\ step'[m] = step[m] + 1
  BY DEF Types
<1>2. CASE goal[m] > at[m]
  <2>1. /\ at[m] + 1 \in 1..3 /\ Operations(m) = Upgrade[at[m] + 1]
        /\ Planned(m, n) = Rising(at[m] + 1, step[m], n)
    BY <1>2, GoesUp
  <2>2. step[m] \in 1..Len(Upgrade[at[m] + 1])
    BY <1>1, <2>1, Lengths
  <2>3. Planned(m, n)' = Rising(at[m] + 1, step[m] + 1, n)
    BY <1>1, <1>2 DEF Planned
  <2> QED
    BY <2>1, <2>2, <2>3, RisingNext
<1>3. CASE goal[m] < at[m]
  <2>1. /\ at[m] \in 1..3 /\ Operations(m) = Downgrade[at[m]]
        /\ Planned(m, n) = Falling(at[m], step[m], n)
    BY <1>3, GoesDown
  <2>2. step[m] \in 1..Len(Downgrade[at[m]])
    BY <1>1, <2>1, Lengths
  <2>3. ~(goal[m] > at[m])
    BY <1>3 DEF Types, Versions
  <2>4. Planned(m, n)' = Falling(at[m], step[m] + 1, n)
    BY <1>1, <1>3, <2>3 DEF Planned
  <2> QED
    BY <2>1, <2>2, <2>4, FallingNext
<1> QED
  BY <1>2, <1>3, Directions

-----------------------------------------------------------------------------
(* The steps.                                                              *)

\* A command follows its plan while another one changes nothing it holds.
LEMMA OthersFollow ==
  ASSUME NEW q \in Migrators, Follows(q), Types,
         pc'[q] = pc[q], at'[q] = at[q], goal'[q] = goal[q], step'[q] = step[q],
         draft'[q] = draft[q], stamped'[q] = stamped[q],
         \/ tables' = tables
         \/ stamped[q] = {} /\ \A n \in DOMAIN draft[q] : tables'[n] = tables[n]
  PROVE  Follows(q)'
<1>1. /\ Operations(q)' = Operations(q)
      /\ \A n : Planned(q, n)' = Planned(q, n)
  BY DEF Operations, Planned
<1>2. Worked(q)' = Worked(q)
  BY <1>1 DEF Worked
<1>3. Rests(q) => Rests(q)'
  BY DEF Rests
<1>4. Holds(q) => Holds(q)'
  <2> SUFFICES ASSUME Holds(q) PROVE Holds(q)'
    OBVIOUS
  <2>1. at'[q] # goal'[q] /\ Worked(q)' \subseteq DOMAIN draft'[q]
    BY <1>2 DEF Holds
  <2>2. \A n \in DOMAIN draft'[q] : draft'[q][n] = Planned(q, n)' /\ tables'[n] = Cut(at'[q], n)
    BY <1>1 DEF Holds
  <2> QED
    BY <2>1, <2>2 DEF Holds
<1>5. Owns(q) /\ tables' = tables => Owns(q)'
  BY <1>1 DEF Owns, View
<1> QED
  BY <1>1, <1>3, <1>4, <1>5 DEF Follows

LEMMA RollsBackStep ==
  ASSUME MInv, NEW m \in Migrators, NEW end \in {"idle", "error"}, RollsBack(m, end),
         alone => end # "error"
  PROVE  MInv'
<1> USE DEF MInv
<1>0. /\ pc' = [pc EXCEPT ![m] = end] /\ at' = [at EXCEPT ![m] = 0]
      /\ goal' = [goal EXCEPT ![m] = 0] /\ step' = [step EXCEPT ![m] = 1]
      /\ draft' = [draft EXCEPT ![m] = <<>>] /\ stamped' = [stamped EXCEPT ![m] = {}]
      /\ alone' = alone /\ tables' = tables /\ heads' = heads
  BY DEF RollsBack, Ends
<1>1. /\ pc'[m] = end /\ at'[m] = 0 /\ goal'[m] = 0 /\ step'[m] = 1
      /\ draft'[m] = <<>> /\ stamped'[m] = {}
      /\ \A q \in Migrators : q # m =>
           /\ pc'[q] = pc[q] /\ at'[q] = at[q] /\ goal'[q] = goal[q] /\ step'[q] = step[q]
           /\ draft'[q] = draft[q] /\ stamped'[q] = stamped[q]
  BY <1>0 DEF Types
<1>2. Types'
  <2>1. \A q \in Migrators : DOMAIN draft'[q] \subseteq Names
    BY <1>1 DEF Types
  <2>2. DOMAIN draft' = Migrators /\ draft' = [q \in Migrators |-> draft'[q]]
    BY <1>0 DEF Types
  <2> QED
    BY <1>0, <2>1, <2>2 DEF Types, Versions
<1>3. Committed'
  BY <1>0 DEF Committed, Stands
<1>4. \A q \in Migrators : Follows(q)'
  <2>1. Follows(m)'
    BY <1>1 DEF Follows, Rests
  <2>2. ASSUME NEW q \in Migrators, q # m PROVE Follows(q)'
    BY <1>0, <1>1, <2>2, OthersFollow
  <2> QED
    BY <2>1, <2>2
<1>5. ASSUME NEW p \in Migrators, NEW q \in Migrators, p # q PROVE Apart(p, q)'
  BY <1>1, <1>5 DEF Apart
<1>6. Solo'
  BY <1>0, <1>1 DEF Solo
<1> QED
  BY <1>2, <1>3, <1>4, <1>5, <1>6

LEMMA CommittedHeads ==
  ASSUME Committed
  PROVE  \E c \in Versions : Stands(c) /\ (IF heads = {} THEN {0} ELSE heads) = {c}
<1>1. PICK c \in Versions : Stands(c)
  BY DEF Committed
<1>2. c = 0 => heads = {}
  BY <1>1 DEF Stands
<1>3. c # 0 => heads = {c}
  BY <1>1 DEF Stands
<1> QED
  BY <1>1, <1>2, <1>3

LEMMA StartStep ==
  ASSUME MInv, NEW m \in Migrators, NEW g \in Versions, Start(m, g)
  PROVE  MInv'
<1> USE DEF MInv
<1>0. PICK v \in Versions : Stands(v) /\ g # v /\ at' = [at EXCEPT ![m] = v]
  BY CommittedHeads DEF Start
<1>1. /\ pc[m] # "run" /\ pc' = [pc EXCEPT ![m] = "run"] /\ goal' = [goal EXCEPT ![m] = g]
      /\ alone' = (alone /\ \A other \in Migrators : pc[other] # "run")
      /\ tables' = tables /\ heads' = heads /\ step' = step /\ draft' = draft
      /\ stamped' = stamped
  BY DEF Start
<1>2. /\ pc'[m] = "run" /\ at'[m] = v /\ goal'[m] = g
      /\ \A q \in Migrators : q # m => pc'[q] = pc[q] /\ at'[q] = at[q] /\ goal'[q] = goal[q]
  BY <1>0, <1>1 DEF Types
<1>3. Types'
  BY <1>0, <1>1 DEF Types
<1>4. Committed'
  BY <1>1 DEF Committed, Stands
<1>5. Follows(m)'
  <2>1. draft'[m] = <<>> /\ stamped'[m] = {} /\ step'[m] = 1
    BY <1>1 DEF Follows, Rests
  <2>2. Worked(m)' = {}
    BY <2>1 DEF Worked
  <2>3. Holds(m)'
    BY <1>0, <1>2, <2>1, <2>2 DEF Holds
  <2>4. step'[m] <= Len(Operations(m)') + 1
    <3>1. CASE goal'[m] > at'[m]
      <4>1. Operations(m)' = Upgrade[at'[m] + 1] /\ at'[m] + 1 \in 1..3
        BY <1>2, <3>1 DEF Operations, Versions
      <4> QED
        BY <2>1, <4>1, Lengths
    <3>2. CASE ~(goal'[m] > at'[m])
      <4>1. Operations(m)' = Downgrade[at'[m]] /\ at'[m] \in 1..3
        BY <1>0, <1>2, <3>2 DEF Operations, Versions
      <4> QED
        BY <2>1, <4>1, Lengths
    <3> QED
      BY <3>1, <3>2
  <2> QED
    BY <1>0, <1>2, <2>1, <2>3, <2>4 DEF Follows
<1>6. ASSUME NEW q \in Migrators PROVE Follows(q)'
  BY <1>1, <1>2, <1>5, OthersFollow
<1>7. \A p, q \in Migrators : p # q => Apart(p, q)'
  BY <1>1 DEF Apart
<1>8. Solo'
  <2>1. heads' = {at'[m]} \ {0}
    BY <1>0, <1>1, <1>2 DEF Stands
  <2> QED
    BY <1>1, <1>2, <2>1 DEF Solo
<1> QED
  BY <1>3, <1>4, <1>6, <1>7, <1>8

LEMMA CommitStep ==
  ASSUME MInv, NEW m \in Migrators, Commit(m)
  PROVE  MInv'
<1> USE DEF MInv
<1>0. /\ pc[m] = "run" /\ at[m] = goal[m] /\ tables' = View(m) /\ heads' = Heads(m)
      /\ pc' = [pc EXCEPT ![m] = "idle"] /\ at' = [at EXCEPT ![m] = 0]
      /\ goal' = [goal EXCEPT ![m] = 0] /\ step' = [step EXCEPT ![m] = 1]
      /\ draft' = [draft EXCEPT ![m] = <<>>] /\ stamped' = [stamped EXCEPT ![m] = {}]
      /\ alone' = alone
  BY DEF Commit, Ends
<1>1. /\ pc'[m] = "idle" /\ at'[m] = 0 /\ goal'[m] = 0 /\ step'[m] = 1
      /\ draft'[m] = <<>> /\ stamped'[m] = {}
      /\ \A q \in Migrators : q # m =>
           /\ pc'[q] = pc[q] /\ at'[q] = at[q] /\ goal'[q] = goal[q] /\ step'[q] = step[q]
           /\ draft'[q] = draft[q] /\ stamped'[q] = stamped[q]
  BY <1>0 DEF Types
<1>2. Types'
  <2>1. \A q \in Migrators : DOMAIN draft'[q] \subseteq Names
    BY <1>1 DEF Types
  <2>2. DOMAIN draft' = Migrators /\ draft' = [q \in Migrators |-> draft'[q]]
    BY <1>0 DEF Types
  <2> QED
    BY <1>0, <2>1, <2>2 DEF Types, Versions
<1>3. Owns(m) /\ stamped[m] # {}
  BY <1>0 DEF Follows, Holds, Owns
<1>4. Committed'
  <2>1. Heads(m) = {at[m]} \ {0}
    BY <1>3 DEF Owns, Heads
  <2>2. at[m] \in Versions /\ ~(goal[m] > at[m]) /\ ~(goal[m] < at[m])
    BY <1>0 DEF Types, Versions
  <2>3. \A n \in Names : View(m)[n] = Cut(at[m], n)
    BY <1>3, <2>2 DEF Owns, Planned
  <2>4. View(m) = [n \in Names |-> Cut(at[m], n)]
    BY <2>3 DEF View
  <2> QED
    BY <1>0, <2>1, <2>2, <2>4 DEF Committed, Stands
<1>5. ASSUME NEW q \in Migrators PROVE Follows(q)'
  <2>1. CASE q = m
    BY <1>1, <2>1 DEF Follows, Rests
  <2>2. CASE q # m
    <3>1. Apart(m, q) /\ stamped[q] = {}
      BY <1>3, <2>2 DEF Apart
    <3>2. ASSUME NEW n \in DOMAIN draft[q] PROVE tables'[n] = tables[n]
      <4>1. n \in Names /\ n \notin DOMAIN draft[m]
        BY <3>1 DEF Apart, Types
      <4> QED
        BY <1>0, <4>1 DEF View
    <3> QED
      BY <1>1, <2>2, <3>1, <3>2, OthersFollow
  <2> QED
    BY <2>1, <2>2
<1>6. ASSUME NEW p \in Migrators, NEW q \in Migrators, p # q PROVE Apart(p, q)'
  BY <1>1, <1>6 DEF Apart
<1>7. Solo'
  <2>1. alone => \A q \in Migrators : pc[q] = "run" => q = m
    BY <1>0 DEF Solo
  <2> QED
    BY <1>0, <1>1, <2>1 DEF Solo
<1> QED
  BY <1>2, <1>4, <1>5, <1>6, <1>7

\* Alone, a command works from the committed version.
LEMMA AloneStands ==
  ASSUME MInv, NEW m \in Migrators, pc[m] = "run", alone, stamped[m] = {}
  PROVE  Stands(at[m])
<1>1. PICK c \in Versions : Stands(c)
  BY DEF MInv, Committed
<1>2. heads = {at[m]} \ {0} /\ heads = {c} \ {0}
  BY <1>1 DEF MInv, Solo, Stands
<1>3. c = at[m]
  BY <1>2
<1> QED
  BY <1>1, <1>3

\* A table the next operation locks, and that the command did not hold, is as
\* the version it works from has it: the operation could not apply otherwise.
LEMMA LocksWhatStands ==
  ASSUME Types, Committed, NEW m \in Migrators, stamped[m] = {}, Holds(m),
         step[m] <= Len(Operations(m)),
         Applies(Operations(m)[step[m]], View(m)),
         NEW n \in Touched(Operations(m)[step[m]], View(m))
  PROVE  n \in Names /\ (n \notin DOMAIN draft[m] => tables[n] = Cut(at[m], n))
<1> DEFINE o == Operations(m)[step[m]]
           Held == DOMAIN draft[m]
<1>0. /\ at[m] \in Versions /\ at[m] \in Nat /\ step[m] \in Nat \ {0} /\ at[m] # goal[m]
      /\ Held \subseteq Names
  BY DEF Types, Versions, Holds
<1>1. PICK c \in Versions : Stands(c)
  BY DEF Committed
<1>2. ASSUME NEW t \in Names
      PROVE  /\ t \in Held => View(m)[t] = Planned(m, t) /\ tables[t] = Cut(at[m], t)
             /\ t \notin Held => View(m)[t] = tables[t]
             /\ Since(t) <= at[m] /\ tables[t] # Missing => tables[t] = Cut(at[m], t)
             /\ Since(t) > at[m] /\ tables[t] = Missing => tables[t] = Cut(at[m], t)
             /\ tables[t] # Missing => Since(t) <= c
             /\ Since(t) \in Nat /\ c \in Nat
             /\ Since(t) <= c => tables[t] # Missing
  <2>1. t \in Held => View(m)[t] = Planned(m, t) /\ tables[t] = Cut(at[m], t)
    BY DEF View, Holds
  <2>2. t \notin Held => View(m)[t] = tables[t]
    BY DEF View
  <2>3. tables[t] = Cut(c, t) /\ Since(t) \in Nat /\ c \in Nat
    BY <1>1, AllNames DEF Stands, Versions
  <2> QED
    BY <1>0, <2>1, <2>2, <2>3, CutFacts
<1>3. CASE goal[m] > at[m]
  <2> DEFINE v == at[m] + 1
             U == Upgrade[v]
  <2>1. v \in 1..3 /\ Operations(m) = U
    BY <1>3, GoesUp
  <2>2. step[m] \in 1..Len(U)
    BY <1>0, <2>1, Lengths
  <2>3. /\ o.name \in Names /\ Since(o.name) = v
        /\ o.op \in {"create_table", "create_index"}
        /\ o.op = "create_table" =>
             /\ o.table = Indexed(Metadata[o.name], {})
             /\ \A t \in FarEnds(o.name) :
                  t = o.name \/ Since(t) < v \/ Done(U, step[m], "create_table", t)
        /\ o.op = "create_index" => Done(U, step[m], "create_table", o.name)
    BY <2>1, <2>2, Revisions DEF Builds
  <2>4. ASSUME NEW t, Done(U, step[m], "create_table", t) PROVE t \in Held
    BY <2>1, <2>4 DEF Done, Worked, Holds
  <2>5. CASE o.op = "create_index"
    <3>1. Touched(o, View(m)) = {o.name}
      BY <2>5 DEF Touched
    <3> QED
      BY <2>3, <2>4, <2>5, <3>1
  <2>6. CASE o.op = "create_table"
    <3>1. /\ View(m)[o.name] = Missing
          /\ \A r \in o.table.references : r.table = o.name \/ View(m)[r.table] # Missing
      BY <2>6 DEF Applies
    <3>2. o.table.references = Metadata[o.name].references
      BY <2>3, <2>6, IndexedFields
    <3>3. n = o.name \/ \E r \in Metadata[o.name].references : n = r.table
      BY <2>6, <3>2 DEF Touched
    <3>4. CASE n = o.name
      <4>1. Since(n) > at[m]
        BY <1>0, <2>3, <3>4
      <4> QED
        BY <1>2, <2>3, <3>1, <3>4, <4>1
    <3>5. CASE n # o.name
      <4>1. PICK r \in Metadata[o.name].references : n = r.table
        BY <3>3, <3>5
      <4>2. n \in Names /\ n \in FarEnds(o.name)
        BY <2>3, <4>1, EndsEarlier DEF FarEnds
      <4>3. View(m)[n] # Missing
        BY <3>1, <3>2, <3>5, <4>1
      <4>4. n \notin Held => Since(n) < v
        BY <2>3, <2>4, <2>6, <3>5, <4>2
      <4>5. n \notin Held => Since(n) <= at[m]
        BY <1>0, <1>2, <4>2, <4>4
      <4> QED
        BY <1>2, <4>2, <4>3, <4>5
    <3> QED
      BY <3>4, <3>5
  <2> QED
    BY <2>3, <2>5, <2>6
<1>4. CASE goal[m] < at[m]
  <2> DEFINE v == at[m]
             D == Downgrade[v]
  <2>1. v \in 1..3 /\ Operations(m) = D /\ \A t : Planned(m, t) = Falling(v, step[m], t)
    BY <1>4, GoesDown
  <2>2. step[m] \in 1..Len(D)
    BY <1>0, <2>1, Lengths
  <2>3. o.name \in Names /\ Since(o.name) = v /\ o.op \in {"drop_table", "drop_index"}
    BY <2>1, <2>2, Revisions DEF Unbuilds
  <2>4. View(m)[o.name] # Missing
    BY <2>3, MissingFields DEF Applies
  <2>5. tables[o.name] = Cut(at[m], o.name)
    BY <1>0, <1>2, <2>3, <2>4
  <2>6. CASE n = o.name
    BY <2>3, <2>5, <2>6
  <2>7. CASE n # o.name
    <3>1. PICK r \in View(m)[o.name].references : n = r.table /\ o.op = "drop_table"
      BY <2>3, <2>7 DEF Touched
    <3>2. r \in Metadata[o.name].references
      <4>1. CASE o.name \in Held
        BY <1>2, <2>1, <2>3, <2>4, <3>1, <4>1, FallingShape
      <4>2. CASE o.name \notin Held
        BY <1>0, <1>2, <2>3, <2>4, <2>5, <3>1, <4>2, CutFacts
      <4> QED
        BY <4>1, <4>2
    <3>3. n \in Names /\ Since(n) <= v
      BY <2>3, <3>1, <3>2, EndsEarlier
    <3>4. tables[o.name] # Missing
      BY <1>0, <2>3, <2>5, CutFacts
    <3>5. tables[n] # Missing
      BY <1>2, <2>3, <3>3, <3>4
    <3> QED
      BY <1>2, <3>3, <3>5
  <2> QED
    BY <2>6, <2>7
<1> QED
  BY <1>0, <1>3, <1>4, Directions

\* An operation locks tables of the models only.
LEMMA PlanTouches ==
  ASSUME Types, NEW m \in Migrators, at[m] # goal[m], step[m] <= Len(Operations(m)),
         NEW view, \A n \in Names : view[n] = Planned(m, n)
  PROVE  Touched(Operations(m)[step[m]], view) \subseteq Names
<1> DEFINE o == Operations(m)[step[m]]
<1>0. step[m] \in Nat \ {0}
  BY DEF Types
<1>1. CASE goal[m] > at[m]
  <2> DEFINE U == Upgrade[at[m] + 1]
  <2>1. at[m] + 1 \in 1..3 /\ Operations(m) = U /\ step[m] \in 1..Len(U)
    BY <1>0, <1>1, GoesUp, Lengths
  <2>2. /\ o.name \in Names /\ o.op \in {"create_table", "create_index"}
        /\ o.op = "create_table" => o.table = Indexed(Metadata[o.name], {})
    BY <2>1, Revisions DEF Builds
  <2>3. o.op = "create_table" => \A r \in o.table.references : r.table \in Names
    BY <2>2, IndexedFields, EndsEarlier
  <2> QED
    BY <2>2, <2>3 DEF Touched
<1>2. CASE goal[m] < at[m]
  <2> DEFINE D == Downgrade[at[m]]
  <2>1. at[m] \in 1..3 /\ Operations(m) = D /\ step[m] \in 1..Len(D)
    BY <1>0, <1>2, GoesDown, Lengths
  <2>2. o.name \in Names /\ o.op \in {"drop_table", "drop_index"}
    BY <2>1, Revisions DEF Unbuilds
  <2>3. view[o.name] = Falling(at[m], step[m], o.name)
    BY <1>2, <2>2, GoesDown
  <2>4. \A r \in view[o.name].references : r.table \in Names
    BY <2>1, <2>2, <2>3, FallingShape, MissingFields, EndsEarlier
  <2> QED
    BY <2>2, <2>4 DEF Touched
<1> QED
  BY <1>1, <1>2, Directions

LEMMA OperateStep ==
  ASSUME MInv, NEW m \in Migrators, Operate(m)
  PROVE  MInv'
<1> USE DEF MInv
<1> DEFINE o == Operations(m)[step[m]]
           view == View(m)
           next == [n \in Touched(o, view) \cup DOMAIN draft[m] |->
                      IF n = o.name THEN Result(o, view[n]) ELSE view[n]]
<1>0. pc[m] = "run" /\ at[m] # goal[m] /\ step[m] <= Len(Operations(m)) /\ step[m] \in Nat \ {0}
  BY DEF Operate, Types
<1>1. \/ RollsBack(m, "error") /\ ~(Applies(o, view) /\ ~Refused(o, view))
      \/ /\ Applies(o, view)
         /\ \A other \in Migrators \ {m} : Touched(o, view) \cap DOMAIN draft[other] = {}
         /\ draft' = [draft EXCEPT ![m] = next]
         /\ step' = [step EXCEPT ![m] = @ + 1]
         /\ UNCHANGED <<tables, heads, pc, at, goal, stamped, alone>>
  BY DEF Operate
<1> HIDE DEF next
<1>2. CASE RollsBack(m, "error") /\ ~(Applies(o, view) /\ ~Refused(o, view))
  <2>1. ~alone
    BY <1>0, <1>2, AloneStands, ViewIsPlan, OperationWorks
  <2> QED
    BY <1>2, <2>1, RollsBackStep
<1>3. CASE /\ Applies(o, view)
           /\ \A other \in Migrators \ {m} : Touched(o, view) \cap DOMAIN draft[other] = {}
           /\ draft' = [draft EXCEPT ![m] = next]
           /\ step' = [step EXCEPT ![m] = @ + 1]
           /\ UNCHANGED <<tables, heads, pc, at, goal, stamped, alone>>
  <2>1. /\ draft'[m] = next /\ step'[m] = step[m] + 1
        /\ \A q \in Migrators : q # m => draft'[q] = draft[q] /\ step'[q] = step[q]
    BY <1>3 DEF Types
  <2>2. /\ DOMAIN next = Touched(o, view) \cup DOMAIN draft[m]
        /\ \A n \in DOMAIN next : next[n] = IF n = o.name THEN Result(o, view[n]) ELSE view[n]
        /\ o.name \in DOMAIN next
    BY DEF next, Touched
  <2>3. Touched(o, view) \subseteq Names
    <3>1. CASE stamped[m] = {}
      BY <1>0, <1>3, <3>1, LocksWhatStands DEF Follows
    <3>2. CASE stamped[m] # {}
      <4>1. \A n \in Names : view[n] = Planned(m, n)
        BY <1>0, <3>2, ViewIsPlan
      <4> QED
        BY <1>0, <4>1, PlanTouches
    <3> QED
      BY <3>1, <3>2
  <2>4. \A n \in Names : Planned(m, n)' =
                           IF n = o.name THEN Result(o, Planned(m, n)) ELSE Planned(m, n)
    BY <1>0, <1>3, PlanNext
  <2>5. Operations(m)' = Operations(m)
    BY <1>3 DEF Operations
  <2>6. Types'
    <3>1. \A q \in Migrators : DOMAIN draft'[q] \subseteq Names
      BY <2>1, <2>2, <2>3 DEF Types
    <3>2. DOMAIN draft' = Migrators /\ draft' = [q \in Migrators |-> draft'[q]]
      BY <1>3 DEF Types
    <3>3. step' \in [Migrators -> Nat \ {0}]
      BY <1>0, <1>3 DEF Types
    <3> QED
      BY <1>3, <3>1, <3>2, <3>3 DEF Types
  <2>7. Committed'
    BY <1>3 DEF Committed, Stands
  <2>8. Holds(m) /\ stamped[m] = {} => Holds(m)'
    <3> SUFFICES ASSUME Holds(m), stamped[m] = {} PROVE Holds(m)'
      OBVIOUS
    <3>1. ASSUME NEW n \in DOMAIN next
          PROVE  n \in Names /\ view[n] = Planned(m, n) /\ tables[n] = Cut(at[m], n)
      <4>1. n \in Names /\ tables[n] = Cut(at[m], n)
        BY <1>0, <1>3, <2>2, LocksWhatStands DEF Holds, Types
      <4>2. CASE n \in DOMAIN draft[m]
        BY <4>1, <4>2 DEF Holds, View
      <4>3. CASE n \notin DOMAIN draft[m]
        <5>1. n \notin Worked(m) /\ view[n] = tables[n]
          BY <4>1, <4>3 DEF Holds, View
        <5> QED
          BY <1>0, <4>1, <5>1, Untouched
      <4> QED
        BY <4>1, <4>2, <4>3
    <3>2. \A n \in DOMAIN draft'[m] : draft'[m][n] = Planned(m, n)' /\ tables'[n] = Cut(at'[m], n)
      BY <1>3, <2>1, <2>2, <2>4, <3>1
    <3>3. Worked(m)' \subseteq Worked(m) \cup {o.name}
      BY <1>0, <2>1, <2>5 DEF Worked
    <3> QED
      BY <1>0, <1>3, <2>1, <2>2, <3>2, <3>3 DEF Holds
  <2>9. Owns(m) => Owns(m)'
    <3> SUFFICES ASSUME Owns(m), NEW n \in Names PROVE View(m)'[n] = Planned(m, n)'
      BY <1>3 DEF Owns
    <3>1. view[n] = Planned(m, n)
      BY DEF Owns
    <3>2. CASE n \in DOMAIN next
      <4>1. View(m)'[n] = next[n]
        BY <2>1, <3>2 DEF View
      <4> QED
        BY <2>2, <2>4, <3>1, <3>2, <4>1
    <3>3. CASE n \notin DOMAIN next
      <4>1. View(m)'[n] = tables[n] /\ view[n] = tables[n]
        BY <1>3, <2>1, <2>2, <3>3 DEF View
      <4> QED
        BY <2>2, <2>4, <3>1, <3>3, <4>1
    <3> QED
      BY <3>2, <3>3
  <2>10. Follows(m)'
    <3>1. step'[m] <= Len(Operations(m)') + 1
      <4>1. Len(Operations(m)) \in Nat
        BY <1>0, GoesUp, GoesDown, Directions, Lengths
      <4> QED
        BY <1>0, <2>1, <2>5, <4>1
    <3> QED
      BY <1>0, <1>3, <2>8, <2>9, <3>1 DEF Follows
  <2>11. ASSUME NEW q \in Migrators PROVE Follows(q)'
    BY <1>3, <2>1, <2>10, OthersFollow
  <2>12. ASSUME NEW p \in Migrators, NEW q \in Migrators, p # q PROVE Apart(p, q)'
    <3>1. CASE p = m
      BY <1>3, <2>1, <2>2, <2>12, <3>1 DEF Apart
    <3>2. CASE q = m
      BY <1>3, <2>1, <2>2, <2>12, <3>2 DEF Apart
    <3>3. CASE p # m /\ q # m
      BY <1>3, <2>1, <2>12, <3>3 DEF Apart
    <3> QED
      BY <3>1, <3>2, <3>3
  <2>13. Solo'
    BY <1>3 DEF Solo
  <2> QED
    BY <2>6, <2>7, <2>11, <2>12, <2>13
<1> QED
  BY <1>1, <1>2, <1>3

\* When a command's last operation is done its first stamp matches only if the
\* committed version is still the one it started from.
LEMMA StampStands ==
  ASSUME MInv, NEW m \in Migrators, pc[m] = "run", at[m] # goal[m],
         step[m] > Len(Operations(m)), stamped[m] = {}, Matched(m)
  PROVE  Stands(at[m])
<1> USE DEF MInv
<1>1. PICK c \in Versions : Stands(c)
  BY DEF Committed
<1>2. Heads(m) = {c} \ {0}
  BY <1>1 DEF Heads, Stands
<1>3. CASE at[m] # 0
  BY <1>1, <1>2, <1>3 DEF Matched
<1>4. CASE at[m] = 0
  <2>1. goal[m] > at[m]
    BY <1>4 DEF Types, Versions
  <2>2. Operations(m) = Upgrade[1] /\ step[m] = Len(Upgrade[1]) + 1
    <3>1. Operations(m) = Upgrade[1] /\ 0 + 1 = 1
      BY <1>4, <2>1, GoesUp
    <3>2. step[m] <= Len(Operations(m)) + 1
      BY DEF Follows
    <3>3. Len(Upgrade[1]) \in Nat /\ step[m] \in Nat
      BY Lengths DEF Types
    <3> QED
      BY <3>1, <3>2, <3>3
  <2>3. "users" \in Worked(m)
    <3>1. Done(Upgrade[1], Len(Upgrade[1]) + 1, "create_table", "users")
      BY AllNames, Revisions DEF Builds
    <3> QED
      BY <2>2, <3>1 DEF Done, Worked
  <2>4. tables["users"] = Cut(0, "users")
    BY <1>4, <2>3 DEF Follows, Holds
  <2>5. Cut(c, "users") = Missing
    <3>1. tables["users"] = Cut(c, "users")
      BY <1>1, AllNames DEF Stands
    <3>2. Cut(0, "users") = Missing
      BY AllNames DEF Cut
    <3> QED
      BY <2>4, <3>1, <3>2
  <2>6. c = 0
    BY <2>5, AllNames, CutFacts DEF Versions
  <2> QED
    BY <1>1, <1>4, <2>6
<1> QED
  BY <1>3, <1>4

LEMMA StampStep ==
  ASSUME MInv, NEW m \in Migrators, Stamp(m)
  PROVE  MInv'
<1> USE DEF MInv
<1>0. /\ pc[m] = "run" /\ at[m] # goal[m] /\ step[m] > Len(Operations(m))
      /\ \A q \in Migrators \ {m} : stamped[q] = {}
  BY DEF Stamp
<1>1. CASE ~Matched(m) /\ RollsBack(m, "error")
  <2>1. ASSUME alone PROVE Matched(m)
    <3>1. Heads(m) = {at[m]} \ {0}
      BY <1>0, <2>1 DEF Heads, Solo, Follows, Owns
    <3> QED
      BY <3>1 DEF Matched
  <2> QED
    BY <1>1, <2>1, RollsBackStep
<1>2. CASE /\ Matched(m)
           /\ stamped' = [stamped EXCEPT ![m] = {(Heads(m) \ {at[m]}) \cup ({Target(m)} \ {0})}]
           /\ at' = [at EXCEPT ![m] = Target(m)]
           /\ step' = [step EXCEPT ![m] = 1]
           /\ UNCHANGED <<tables, heads, pc, goal, draft, alone>>
  <2>1. stamped[m] # {} \/ Stands(at[m])
    BY <1>0, <1>2, StampStands
  <2>2. \A n \in Names : View(m)[n] = Planned(m, n)
    BY <1>0, <2>1, ViewIsPlan
  <2>3. Heads(m) \ {at[m]} = {}
    <3>1. CASE stamped[m] = {}
      BY <2>1, <3>1 DEF Heads, Stands
    <3>2. CASE stamped[m] # {}
      BY <1>0, <3>2 DEF Heads, Follows, Owns
    <3> QED
      BY <3>1, <3>2
  <2>4. /\ at'[m] = Target(m) /\ step'[m] = 1 /\ stamped'[m] = {{Target(m)} \ {0}}
        /\ \A q \in Migrators : q # m =>
             at'[q] = at[q] /\ step'[q] = step[q] /\ stamped'[q] = stamped[q]
    BY <1>2, <2>3 DEF Types
  <2>5. Target(m) \in Versions /\ \A n \in Names : Planned(m, n) = Cut(Target(m), n)
    <3>1. step[m] = Len(Operations(m)) + 1
      <4>1. step[m] <= Len(Operations(m)) + 1 /\ step[m] \in Nat
        BY <1>0 DEF Follows, Types
      <4>2. Len(Operations(m)) \in Nat
        BY <1>0, GoesUp, GoesDown, Directions, Lengths
      <4> QED
        BY <1>0, <4>1, <4>2
    <3>2. CASE goal[m] > at[m]
      <4>1. /\ at[m] + 1 \in 1..3 /\ Operations(m) = Upgrade[at[m] + 1] /\ Target(m) = at[m] + 1
            /\ \A n : Planned(m, n) = Rising(at[m] + 1, step[m], n)
        BY <3>2, GoesUp
      <4> QED
        BY <3>1, <4>1, PlanEnds DEF Versions
    <3>3. CASE goal[m] < at[m]
      <4>1. /\ at[m] \in 1..3 /\ Operations(m) = Downgrade[at[m]] /\ Target(m) = at[m] - 1
            /\ \A n : Planned(m, n) = Falling(at[m], step[m], n)
        BY <3>3, GoesDown
      <4> QED
        BY <3>1, <4>1, PlanEnds DEF Versions
    <3> QED
      BY <1>0, <3>2, <3>3, Directions
  <2>6. Types'
    BY <1>2, <2>3, <2>5 DEF Types, Versions
  <2>7. Committed'
    BY <1>2 DEF Committed, Stands
  <2>8. \A n \in Names : Planned(m, n)' = Cut(Target(m), n)
    <3>1. at'[m] = Target(m) /\ step'[m] = 1 /\ goal'[m] \in Versions
      BY <2>4, <2>6 DEF Types
    <3>2. CASE goal'[m] > at'[m]
      <4>1. Target(m) + 1 \in 1..3 /\ (Target(m) + 1) - 1 = Target(m)
        BY <2>5, <3>1, <3>2 DEF Versions
      <4>2. \A n : Planned(m, n)' = Rising(Target(m) + 1, 1, n)
        BY <3>1, <3>2 DEF Planned
      <4> QED
        BY <4>1, <4>2, PlanEnds
    <3>3. CASE goal'[m] < at'[m]
      <4>1. Target(m) \in 1..3 /\ ~(goal'[m] > at'[m])
        BY <2>5, <3>1, <3>3 DEF Versions
      <4>2. \A n : Planned(m, n)' = Falling(Target(m), 1, n)
        BY <3>1, <3>3, <4>1 DEF Planned
      <4> QED
        BY <4>1, <4>2, PlanEnds
    <3>4. CASE goal'[m] = at'[m]
      <4>1. ~(goal'[m] > at'[m]) /\ ~(goal'[m] < at'[m])
        BY <2>5, <3>1, <3>4 DEF Versions
      <4> QED
        BY <3>1, <4>1 DEF Planned
    <3> QED
      BY <2>5, <3>1, <3>2, <3>3, <3>4 DEF Versions
  <2>9. Follows(m)'
    <3>1. View(m)' = View(m)
      BY <1>2 DEF View
    <3>2. Owns(m)'
      BY <2>2, <2>4, <2>5, <2>8, <3>1 DEF Owns
    <3>3. at'[m] # goal'[m] => step'[m] <= Len(Operations(m)') + 1
      <4>1. CASE goal'[m] > at'[m]
        <5>1. Operations(m)' = Upgrade[at'[m] + 1] /\ at'[m] + 1 \in 1..3
          BY <2>6, <4>1 DEF Operations, Types, Versions
        <5> QED
          BY <2>4, <5>1, Lengths
      <4>2. CASE goal'[m] < at'[m]
        <5>1. ~(goal'[m] > at'[m])
          BY <2>6, <4>2 DEF Types, Versions
        <5>2. Operations(m)' = Downgrade[at'[m]] /\ at'[m] \in 1..3
          BY <2>6, <4>2, <5>1 DEF Operations, Types, Versions
        <5> QED
          BY <2>4, <5>2, Lengths
      <4>3. at'[m] \in 0..3 /\ goal'[m] \in 0..3
        BY <2>6 DEF Types, Versions
      <4> QED
        BY <4>1, <4>2, <4>3
    <3> QED
      BY <1>0, <1>2, <2>4, <3>2, <3>3 DEF Follows
  <2>10. ASSUME NEW q \in Migrators PROVE Follows(q)'
    BY <1>2, <2>4, <2>9, OthersFollow
  <2>11. ASSUME NEW p \in Migrators, NEW q \in Migrators, p # q PROVE Apart(p, q)'
    <3>1. DOMAIN draft'[p] \cap DOMAIN draft'[q] = {}
      BY <1>2, <2>11 DEF Apart
    <3>2. stamped'[p] = {} \/ stamped'[q] = {}
      BY <1>0, <2>4, <2>11
    <3> QED
      BY <3>1, <3>2 DEF Apart
  <2>12. Solo'
    <3>1. \A q \in Migrators : alone /\ pc[q] = "run" => q = m
      BY <1>0 DEF Solo
    <3> QED
      BY <1>2, <2>4, <3>1 DEF Solo
  <2> QED
    BY <2>6, <2>7, <2>10, <2>11, <2>12
<1> QED
  BY <1>1, <1>2 DEF Stamp

-----------------------------------------------------------------------------
LEMMA InitInv == Init => MInv
<1> SUFFICES ASSUME Init PROVE MInv
  OBVIOUS
<1> USE DEF Init
<1>1. Types
  BY DEF Types, Versions
<1>2. Committed
  <2>1. \A n \in Names : Cut(0, n) = Missing
    BY AllNames DEF Cut
  <2>2. Stands(0)
    BY <2>1 DEF Stands
  <2> QED
    BY <2>2 DEF Committed, Versions
<1>3. \A m \in Migrators : Follows(m)
  BY DEF Follows, Rests
<1>4. \A m, q \in Migrators : m # q => Apart(m, q)
  BY DEF Apart
<1>5. Solo
  BY DEF Solo
<1> QED
  BY <1>1, <1>2, <1>3, <1>4, <1>5 DEF MInv

LEMMA StutterStep ==
  ASSUME MInv, UNCHANGED vars
  PROVE  MInv'
<1> USE DEF MInv, vars
<1>1. Types'
  BY DEF Types
<1>2. Committed'
  BY DEF Committed, Stands
<1>3. ASSUME NEW q \in Migrators PROVE Follows(q)'
  BY OthersFollow
<1>4. \A p, q \in Migrators : p # q => Apart(p, q)'
  BY DEF Apart
<1>5. Solo'
  BY DEF Solo
<1> QED
  BY <1>1, <1>2, <1>3, <1>4, <1>5

LEMMA NextInv == MInv /\ [Next]_vars => MInv'
<1> SUFFICES ASSUME MInv, [Next]_vars PROVE MInv'
  OBVIOUS
<1>1. ASSUME NEW m \in Migrators, NEW g \in Versions, Start(m, g) PROVE MInv'
  BY <1>1, StartStep
<1>2. ASSUME NEW m \in Migrators, Operate(m) PROVE MInv'
  BY <1>2, OperateStep
<1>3. ASSUME NEW m \in Migrators, Stamp(m) PROVE MInv'
  BY <1>3, StampStep
<1>4. ASSUME NEW m \in Migrators, Commit(m) PROVE MInv'
  BY <1>4, CommitStep
<1>5. ASSUME NEW m \in Migrators, Abort(m) PROVE MInv'
  BY <1>5, RollsBackStep DEF Abort
<1>6. CASE UNCHANGED vars
  BY <1>6, StutterStep
<1> QED
  BY <1>1, <1>2, <1>3, <1>4, <1>5, <1>6 DEF Next

\* However many deployments run however many upgrades and downgrades at once,
\* and whichever of them fail or stop halfway, each transaction sees its plan
\* in every table it holds, no table has two holders, and the committed tables
\* are the models' up to the committed version (migrations/env.py:36-40,
\* versions/*.py).
THEOREM Invariance == Spec => []MInv
<1> QED
  BY InitInv, NextInv, PTL DEF Spec

\* The tables of the revisions up to v are those whose own revision is not later.
LEMMA OwnedTables ==
  ASSUME NEW v \in Versions, NEW n \in Names
  PROVE  n \in Owned(v) <=> Since(n) <= v
<1>0. v \in 0..3 /\ Since(n) \in 1..3
  BY AllNames DEF Versions
<1>1. ASSUME n \in Owned(v) PROVE Since(n) <= v
  <2>1. PICK w \in 1..v : \E k \in DOMAIN Upgrade[w] : n = Upgrade[w][k].name
    BY <1>1 DEF Owned
  <2>2. w \in 1..3
    BY <1>0
  <2>3. PICK k \in 1..Len(Upgrade[w]) : n = Upgrade[w][k].name
    BY <2>1, <2>2, Lengths
  <2>4. Builds(Upgrade[w], w)
    BY <2>2, Revisions
  <2>5. Since(n) = w
    BY <2>3, <2>4 DEF Builds
  <2> QED
    BY <1>0, <2>5
<1>2. ASSUME Since(n) <= v PROVE n \in Owned(v)
  <2> DEFINE w == Since(n)
  <2>1. w \in 1..v /\ w \in 1..3
    BY <1>0, <1>2
  <2>2. Done(Upgrade[w], Len(Upgrade[w]) + 1, "create_table", n)
    BY <2>1, Revisions DEF Builds
  <2>3. \E k \in DOMAIN Upgrade[w] : n = Upgrade[w][k].name
    BY <2>1, <2>2, Lengths DEF Done
  <2> QED
    BY <2>1, <2>3 DEF Owned
<1> QED
  BY <1>1, <1>2

LEMMA TheModels == Committed => CommittedIsTheModels
<1> SUFFICES ASSUME NEW v \in Versions, Stands(v) PROVE CommittedIsTheModels
  BY DEF Committed
<1>1. \A n \in Names : Cut(v, n) = IF n \in Owned(v) THEN Metadata[n] ELSE Missing
  BY OwnedTables DEF Cut
<1>2. tables = [n \in Names |-> IF n \in Owned(v) THEN Metadata[n] ELSE Missing]
  BY <1>1 DEF Stands
<1> QED
  BY <1>2 DEF CommittedIsTheModels, Stands

\* At every moment the committed database is exactly the models, cut to the
\* version in alembic_version: no column, key, foreign key, CHECK or index
\* drifts, whatever commands ran, met or died (versions/*.py against
\* app/models/*.py).
THEOREM NoDrift == Spec => []CommittedIsTheModels
<1>1. MInv => CommittedIsTheModels
  BY TheModels DEF MInv
<1> QED
  BY <1>1, Invariance, PTL

\* A command that never met another one ends without an error, from whatever
\* version to whatever version: each operation of every upgrade() and
\* downgrade() finds the tables and indexes it names, no DROP TABLE is refused,
\* and every stamp matches its row (versions/*.py).
THEOREM NoFailures == Spec => []MigrationsDoNotFail
<1>1. MInv => MigrationsDoNotFail
  BY DEF MInv, Solo, MigrationsDoNotFail
<1> QED
  BY <1>1, Invariance, PTL

-----------------------------------------------------------------------------
(* The commands take effect one after another.                             *)

LEMMA VersionStands ==
  ASSUME NEW c \in Versions, Stands(c)
  PROVE  Version = c
BY DEF Stands, Version, Versions

\* A command that has done all operations of a revision, and whose stamp
\* matches, is about to lead from the committed version.
LEMMA FromStands ==
  ASSUME MInv, NEW m \in Migrators, pc[m] = "run", at[m] # goal[m],
         step[m] > Len(Operations(m)), Matched(m)
  PROVE  From(m) = Version
<1>1. CASE stamped[m] = {}
  <2>1. Stands(at[m]) /\ at[m] \in Versions
    BY <1>1, StampStands DEF MInv, Types
  <2> QED
    BY <1>1, <2>1, VersionStands DEF From
<1> QED
  BY <1>1 DEF From

\* What leaves a command's progress alone leaves its plan alone.
LEMMA PlanStands ==
  ASSUME NEW m \in Migrators, Version' = Version, pc'[m] = pc[m], at'[m] = at[m],
         goal'[m] = goal[m], stamped'[m] = stamped[m]
  PROVE  Plan'[m] = Plan[m]
BY DEF Plan, From

\* One command begins, finishes or fails, and the others' plans stand.
LEMMA PlanChanges ==
  ASSUME NEW m \in Migrators, NEW p,
         Plan'[m] = p, \A q \in Migrators : q # m => Plan'[q] = Plan[q]
  PROVE  Plan' = [Plan EXCEPT ![m] = p]
BY DEF Plan

LEMMA BeginStep ==
  ASSUME MInv, NEW m \in Migrators, NEW g \in Versions, Start(m, g)
  PROVE  OneByOne!Begin(m, g)
<1>1. PICK v \in Versions : Stands(v) /\ g # v /\ at' = [at EXCEPT ![m] = v]
  BY CommittedHeads DEF Start, MInv
<1>2. Version = v /\ Version' = Version
  BY <1>1, VersionStands DEF Start, Version
<1>3. Plan[m] = {}
  BY DEF Start, Plan
<1>4. Plan'[m] = {<<Version, g>>}
  <2>1. at'[m] = v /\ pc'[m] = "run" /\ goal'[m] = g
    BY <1>1 DEF Start, MInv, Types
  <2>2. stamped'[m] = {}
    BY DEF Start, MInv, Follows, Rests
  <2> QED
    BY <1>2, <2>1, <2>2 DEF Plan, From
<1>5. ASSUME NEW q \in Migrators, q # m PROVE Plan'[q] = Plan[q]
  <2>1. /\ pc'[q] = pc[q] /\ at'[q] = at[q] /\ goal'[q] = goal[q]
        /\ stamped'[q] = stamped[q]
    BY <1>1, <1>5 DEF Start, MInv, Types
  <2> QED
    BY <1>2, <2>1, PlanStands
<1> QED
  BY <1>1, <1>2, <1>3, <1>4, <1>5, PlanChanges DEF OneByOne!Begin

LEMMA FailStep ==
  ASSUME MInv, NEW m \in Migrators, NEW end \in {"idle", "error"}, pc[m] = "run",
         RollsBack(m, end)
  PROVE  OneByOne!Fail(m)
<1>1. Version' = Version
  BY DEF RollsBack, Version
<1>2. Plan[m] # {} /\ Plan'[m] = {}
  <2>1. pc'[m] = end
    BY DEF RollsBack, Ends, MInv, Types
  <2> QED
    BY <2>1 DEF Plan
<1>3. ASSUME NEW q \in Migrators, q # m PROVE Plan'[q] = Plan[q]
  <2>1. /\ pc'[q] = pc[q] /\ at'[q] = at[q] /\ goal'[q] = goal[q]
        /\ stamped'[q] = stamped[q]
    BY <1>3 DEF RollsBack, Ends, MInv, Types
  <2> QED
    BY <1>1, <2>1, PlanStands
<1> QED
  BY <1>1, <1>2, <1>3, PlanChanges DEF OneByOne!Fail

LEMMA FinishStep ==
  ASSUME MInv, NEW m \in Migrators, Commit(m)
  PROVE  OneByOne!Finish(m)
<1>0. pc[m] = "run" /\ at[m] = goal[m] /\ goal[m] \in Versions
  BY DEF Commit, MInv, Types
<1>1. Owns(m) /\ stamped[m] # {}
  BY <1>0 DEF MInv, Follows, Holds, Owns
<1>2. Plan[m] = {<<Version, goal[m]>>}
  BY <1>0, <1>1 DEF Plan, From
<1>3. Version' = goal[m]
  <2>1. heads' = {goal[m]} \ {0}
    BY <1>0, <1>1 DEF Commit, Heads, Owns
  <2> QED
    BY <2>1 DEF Version
<1>4. Plan'[m] = {}
  <2>1. pc'[m] = "idle"
    BY DEF Commit, Ends, MInv, Types
  <2> QED
    BY <2>1 DEF Plan
<1>5. ASSUME NEW q \in Migrators, q # m PROVE Plan'[q] = Plan[q]
  <2>1. /\ pc'[q] = pc[q] /\ at'[q] = at[q] /\ goal'[q] = goal[q]
        /\ stamped'[q] = stamped[q]
    BY <1>5 DEF Commit, Ends, MInv, Types
  <2>2. stamped[q] = {}
    BY <1>1, <1>5 DEF MInv, Apart
  <2> QED
    BY <2>1, <2>2 DEF Plan, From
<1> QED
  BY <1>0, <1>2, <1>3, <1>4, <1>5, PlanChanges DEF OneByOne!Finish, Versions

LEMMA ElseDeploymentsStand ==
  ASSUME MInv, NEW m \in Migrators,
         \/ Operate(m) /\ ~RollsBack(m, "error")
         \/ Stamp(m) /\ ~RollsBack(m, "error")
  PROVE  UNCHANGED OneByOne!deployment
<1>1. Version' = Version
  <2>1. Operate(m) /\ ~RollsBack(m, "error") => heads' = heads
    BY DEF Operate
  <2>2. Stamp(m) /\ ~RollsBack(m, "error") => heads' = heads
    BY DEF Stamp
  <2>3. heads' = heads
    BY <2>1, <2>2
  <2> QED
    BY <2>3 DEF Version
<1>2. CASE Operate(m) /\ ~RollsBack(m, "error")
  <2>1. UNCHANGED <<pc, at, goal, stamped>>
    BY <1>2 DEF Operate
  <2> QED
    BY <1>1, <2>1 DEF OneByOne!deployment, Plan, From
<1>3. CASE Stamp(m) /\ ~RollsBack(m, "error")
  <2>1. /\ pc[m] = "run" /\ at[m] # goal[m] /\ step[m] > Len(Operations(m)) /\ Matched(m)
        /\ pc' = pc /\ goal' = goal
        /\ at' = [at EXCEPT ![m] = Target(m)]
        /\ stamped' = [stamped EXCEPT ![m] = {(Heads(m) \ {at[m]}) \cup ({Target(m)} \ {0})}]
    BY <1>3 DEF Stamp
  <2>2. stamped'[m] # {}
    BY <2>1 DEF MInv, Types
  <2>3. From(m)' = From(m)
    BY <1>1, <2>1, <2>2, FromStands DEF From
  <2>4. ASSUME NEW q \in Migrators, q # m PROVE From(q)' = From(q)
    BY <1>1, <2>1, <2>4 DEF From, MInv, Types
  <2>5. Plan' = Plan
    BY <2>1, <2>3, <2>4 DEF Plan
  <2> QED
    BY <1>1, <2>5 DEF OneByOne!deployment
<1> QED
  BY <1>2, <1>3

\* Each command takes effect in one step, from the version it has read to the
\* one it was asked for, while the database is still at the version it has read,
\* or not at all, however many run at once and wherever they stop (env.py:40).
THEOREM DeploymentRefinement == Spec => RefinesDeployments
<1>1. Init => OneByOne!Init
  BY DEF Init, Version, Plan, OneByOne!Init
<1>2. MInv /\ [Next]_vars => [OneByOne!Next]_OneByOne!deployment
  <2> SUFFICES ASSUME MInv, [Next]_vars PROVE [OneByOne!Next]_OneByOne!deployment
    OBVIOUS
  <2>1. ASSUME NEW m \in Migrators, NEW g \in Versions, Start(m, g)
        PROVE  OneByOne!Next
    BY <2>1, BeginStep DEF OneByOne!Next, Versions
  <2>2. ASSUME NEW m \in Migrators, NEW end \in {"idle", "error"}, pc[m] = "run",
               RollsBack(m, end)
        PROVE  OneByOne!Next
    BY <2>2, FailStep DEF OneByOne!Next
  <2>3. ASSUME NEW m \in Migrators, Operate(m)
        PROVE  [OneByOne!Next]_OneByOne!deployment
    <3>1. pc[m] = "run"
      BY <2>3 DEF Operate
    <3> QED
      BY <2>2, <2>3, <3>1, ElseDeploymentsStand
  <2>4. ASSUME NEW m \in Migrators, Stamp(m)
        PROVE  [OneByOne!Next]_OneByOne!deployment
    <3>1. pc[m] = "run"
      BY <2>4 DEF Stamp
    <3> QED
      BY <2>2, <2>4, <3>1, ElseDeploymentsStand
  <2>5. ASSUME NEW m \in Migrators, Commit(m)
        PROVE  OneByOne!Next
    BY <2>5, FinishStep DEF OneByOne!Next
  <2>6. ASSUME NEW m \in Migrators, Abort(m)
        PROVE  OneByOne!Next
    BY <2>2, <2>6 DEF Abort
  <2>7. CASE UNCHANGED vars
    BY <2>7 DEF vars, Version, Plan, From, OneByOne!deployment
  <2> QED
    BY <2>1, <2>3, <2>4, <2>5, <2>6, <2>7 DEF Next
<1> QED
  BY <1>1, <1>2, Invariance, PTL DEF Spec, RefinesDeployments, OneByOne!Spec
=============================================================================
