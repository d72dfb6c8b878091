------------------------------- MODULE Schema -------------------------------
(***************************************************************************)
(* The schema the application is written against: one table per file of    *)
(* app/models.  A table is described by what the other modules rely on:    *)
(* its columns (required or optional), primary key, unique columns,        *)
(* foreign keys with their ON DELETE rule, CHECK constraints and indexes.  *)
(* Types, lengths and defaults of columns are left out.                    *)
(***************************************************************************)

Table(required, optional, key, unique, references, checks, indexes) ==
    [required |-> required, optional |-> optional, key |-> key, unique |-> unique,
     references |-> references, checks |-> checks, indexes |-> indexes]

\* ForeignKey(column -> table.id, ondelete = rule).
References(column, table, rule) == [column |-> column, table |-> table, rule |-> rule]

\* Index(name, columns or expression, unique).
Index(name, on, unique) == [name |-> name, on |-> on, unique |-> unique]

User ==
    Table({"id", "email", "password_hash", "first_name", "last_name", "is_active",
           "is_verified", "created_at", "updated_at"}, {},
          {"id"}, {"email"}, {}, {}, {Index("ix_users_email_lower", <<"lower(email)">>, TRUE)})

Role == Table({"id", "name", "created_at"}, {"description"}, {"id"}, {"name"}, {}, {}, {})

Permission == Table({"id", "name", "created_at"}, {"description"}, {"id"}, {"name"}, {}, {}, {})

UserRole ==
    Table({"user_id", "role_id", "created_at"}, {}, {"user_id", "role_id"}, {},
          {References("user_id", "users", "CASCADE"), References("role_id", "roles", "CASCADE")},
          {}, {})

RolePermission ==
    Table({"role_id", "permission_id", "created_at"}, {}, {"role_id", "permission_id"}, {},
          {References("role_id", "roles", "CASCADE"),
           References("permission_id", "permissions", "CASCADE")}, {}, {})

RefreshToken ==
    Table({"id", "user_id", "token_hash", "expires_at", "is_active", "created_at"},
          {"revoked_at", "replaced_by_token_hash"}, {"id"}, {"token_hash"},
          {References("user_id", "users", "CASCADE")}, {},
          {Index("ix_refresh_tokens_user_active", <<"user_id", "is_active">>, FALSE)})

Address ==
    Table({"id", "user_id", "address_type", "full_name", "phone_number", "line1", "city",
           "state", "postal_code", "country", "is_default", "created_at", "updated_at"},
          {"line2"}, {"id"}, {},
          {References("user_id", "users", "CASCADE")}, {"ck_addresses_address_type"},
          {Index("ix_addresses_user_type", <<"user_id", "address_type">>, FALSE)})

Category ==
    Table({"id", "name", "slug", "is_active", "created_at", "updated_at"},
          {"parent_id", "description"}, {"id"}, {"slug"},
          {References("parent_id", "categories", "SET NULL")}, {},
          {Index("ix_categories_parent_active", <<"parent_id", "is_active">>, FALSE)})

Product ==
    Table({"id", "category_id", "seller_id", "name", "slug", "sku", "description", "price",
           "currency", "is_active", "created_at", "updated_at"},
          {"compare_at_price"}, {"id"}, {"slug", "sku"},
          {References("category_id", "categories", "RESTRICT"),
           References("seller_id", "users", "RESTRICT")},
          {"ck_products_price_non_negative", "ck_products_compare_price"},
          {Index("ix_products_category_active", <<"category_id", "is_active">>, FALSE),
           Index("ix_products_seller_active", <<"seller_id", "is_active">>, FALSE),
           Index("ix_products_name", <<"name">>, FALSE)})

ProductImage ==
    Table({"id", "product_id", "url", "position", "is_primary", "created_at"}, {"alt_text"},
          {"id"}, {}, {References("product_id", "products", "CASCADE")}, {},
          {Index("ix_product_images_product_position", <<"product_id", "position">>, FALSE)})

\* Base.metadata, which app.models fills: every table under its __tablename__.
Metadata ==
    [users |-> User, roles |-> Role, permissions |-> Permission, user_roles |-> UserRole,
     role_permissions |-> RolePermission, refresh_tokens |-> RefreshToken,
     addresses |-> Address, categories |-> Category, products |-> Product,
     product_images |-> ProductImage]
=============================================================================
