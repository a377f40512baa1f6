------------------------------- MODULE Schema -------------------------------
(***************************************************************************)
(* The database's schema twice over: as the migration files build it       *)
(* (packages/db/src/migrations), statement by statement, and as the code   *)
(* declares it to Drizzle (schema.ts, schema/auth.ts).  A table is its set *)
(* of columns; with it go its foreign keys, all ON DELETE CASCADE, and its *)
(* UNIQUE keys.  Column types, defaults, CHECKs and plain indexes are left *)
(* out, and so is the primary key id.                                      *)
(***************************************************************************)
EXTENDS Naturals, Sequences

Stamps == {"created_at", "updated_at"}

\* CREATE TABLE IF NOT EXISTS, ALTER TABLE ADD COLUMN, CREATE UNIQUE INDEX IF
\* NOT EXISTS.
Table(name, columns, refs, uniques) ==
    [op |-> "table", table |-> name, columns |-> {"id"} \cup columns,
     refs |-> refs, uniques |-> uniques]
Column(name, column) ==
    [op |-> "column", table |-> name, columns |-> {column}, refs |-> {}, uniques |-> {}]
Unique(name, columns) ==
    [op |-> "unique", table |-> name, columns |-> {}, refs |-> {}, uniques |-> {columns}]

M0001_init == <<
    Table("users", {"username", "email", "password_hash"} \cup Stamps, {}, {}),
    Unique("users", {"username"}),
    Unique("users", {"email"}),
    Table("boxes",
          {"name", "base_url", "username", "password_enc", "jwt_cached",
           "jwt_obtained_at", "api_key_cached", "last_sync_at", "status"} \cup Stamps,
          {}, {}),
    Table("cameras",
          {"box_id", "channel_id", "name", "latitude", "longitude", "resolution",
           "stream_url", "status"} \cup Stamps, {"boxes"}, {}),
    Table("camera_groups", {"name", "box_id"} \cup Stamps, {"boxes"}, {}),
    Table("alerts",
          {"camera_id", "type", "confidence", "timestamp", "image_url",
           "processed", "created_at"}, {"cameras"}, {}),
    Table("alert_rules",
          {"camera_id", "alert_type", "enabled", "notify_toast",
           "notify_web_push", "notify_telegram"} \cup Stamps, {"cameras"}, {}),
    Table("web_push_subs", {"user_id", "endpoint", "auth", "p256dh"} \cup Stamps,
          {"users"}, {}),
    Table("telegram_subs", {"user_id", "chat_id"} \cup Stamps, {"users"}, {}) >>

M0002_auth_blacklist == <<
    Table("auth_token_blacklist", {"jti", "user_id", "expires_at", "created_at"},
          {"users"}, {{"jti"}}) >>

M0003_box_vault == <<
    Column("boxes", "jwt_cached_enc"), Column("boxes", "api_key_cached_enc") >>

M0004_box_unique_url == << Unique("boxes", {"base_url"}) >>

\* Mutant: the migration forgets the column the code writes a failed sync to.
M0005_without_error == <<
    Column("cameras", "last_synced_at"),
    Unique("cameras", {"box_id", "channel_id"}) >>

M0005_add_camera_sync_columns == <<
    Column("cameras", "last_synced_at"), Column("cameras", "sync_error"),
    Unique("cameras", {"box_id", "channel_id"}) >>

\* The primary key (box_id, channel_id) of detection_cursor, which has no id, is
\* among its UNIQUE keys.
M0006_alerts_and_models == <<
    Table("webpush_subscriptions",
          {"user_id", "endpoint", "p256dh", "auth", "created_at"},
          {"users"}, {{"user_id", "endpoint"}}),
    Table("alert_destinations",
          {"user_id", "channel", "enabled", "config_json"} \cup Stamps,
          {"users"}, {{"user_id", "channel"}}),
    Table("detection_alerts",
          {"box_id", "channel_id", "type", "payload_json", "fired_at", "status",
           "created_at"}, {"boxes"}, {}),
    [Table("detection_cursor",
           {"box_id", "channel_id", "last_seen_timestamp", "updated_at"},
           {"boxes"}, {{"box_id", "channel_id"}})
       EXCEPT !.columns = @ \ {"id"}] >>

M0007_camera_ble_beacon_count == << Column("cameras", "ble_beacon_count") >>

\* The files in the order of their names.
Files == << M0001_init, M0002_auth_blacklist, M0003_box_vault,
            M0004_box_unique_url, M0005_add_camera_sync_columns,
            M0006_alerts_and_models, M0007_camera_ble_beacon_count >>

-----------------------------------------------------------------------------
NoTables == [t \in {} |-> {}]
EmptyDb == [tables |-> NoTables, refs |-> {}, uniques |-> {}]

\* Whether SQLite runs a statement: a column is added to a table that lacks it,
\* an index needs its table and columns.
Runs(db, s) ==
    CASE s.op = "table" -> TRUE
      [] s.op = "column" -> s.table \in DOMAIN db.tables
                            /\ s.columns \cap db.tables[s.table] = {}
      [] s.op = "unique" -> s.table \in DOMAIN db.tables
                            /\ \A u \in s.uniques : u \subseteq db.tables[s.table]

\* What it does; a table that exists is left as it is.
Run(db, s) ==
    IF s.op = "table" /\ s.table \in DOMAIN db.tables THEN db
    ELSE [tables |-> [t \in DOMAIN db.tables \cup {s.table} |->
                        (IF t \in DOMAIN db.tables THEN db.tables[t] ELSE {})
                          \cup (IF t = s.table THEN s.columns ELSE {})],
          refs |-> db.refs \cup {<<s.table, parent>> : parent \in s.refs},
          uniques |-> db.uniques \cup {<<s.table, u>> : u \in s.uniques}]

\* The database after the first n statements of a file.
After(db, file, n) ==
    LET run[k \in 0 .. n] == IF k = 0 THEN db ELSE Run(run[k - 1], file[k])
    IN  run[n]

FileRuns(db, file) ==
    \A n \in DOMAIN file : Runs(After(db, file, n - 1), file[n])

\* The database after the first n files.
SchemaAfter[n \in 0 .. Len(Files)] ==
    IF n = 0 THEN EmptyDb
    ELSE After(SchemaAfter[n - 1], Files[n], Len(Files[n]))

-----------------------------------------------------------------------------
(* What the code expects: the tables of schema.ts and schema/auth.ts.      *)

DrizzleColumns ==
    [users |-> {"id", "username", "email", "password_hash"} \cup Stamps,
     boxes |-> {"id", "name", "base_url", "username", "password_enc",
                "jwt_cached", "jwt_obtained_at", "api_key_cached",
                "jwt_cached_enc", "api_key_cached_enc", "last_sync_at",
                "status"} \cup Stamps,
     cameras |-> {"id", "box_id", "channel_id", "name", "latitude", "longitude",
                  "ble_beacon_count", "resolution", "stream_url", "status",
                  "last_synced_at", "sync_error"} \cup Stamps]

DrizzleOldTables ==
    [camera_groups |-> {"id", "name", "box_id"} \cup Stamps,
     alerts |-> {"id", "camera_id", "type", "confidence", "timestamp",
                 "image_url", "processed", "created_at"},
     alert_rules |-> {"id", "camera_id", "alert_type", "enabled",
                      "notify_toast", "notify_web_push",
                      "notify_telegram"} \cup Stamps,
     web_push_subs |-> {"id", "user_id", "endpoint", "auth", "p256dh"} \cup Stamps,
     telegram_subs |-> {"id", "user_id", "chat_id"} \cup Stamps]

DrizzleAlertTables ==
    [webpush_subscriptions |->
        {"id", "user_id", "endpoint", "p256dh", "auth", "created_at"},
     alert_destinations |->
        {"id", "user_id", "channel", "enabled", "config_json"} \cup Stamps,
     detection_alerts |->
        {"id", "box_id", "channel_id", "type", "payload_json", "fired_at",
         "status", "created_at"},
     detection_cursor |->
        {"box_id", "channel_id", "last_seen_timestamp", "updated_at"}]

DrizzleAuth ==
    [auth_token_blacklist |->
        {"id", "jti", "user_id", "expires_at", "created_at"}]

\* The tables of two modules.
Joined(f, g) == [t \in DOMAIN f \cup DOMAIN g |-> IF t \in DOMAIN f THEN f[t] ELSE g[t]]

DrizzleTables ==
    Joined(Joined(DrizzleColumns, DrizzleOldTables), Joined(DrizzleAlertTables, DrizzleAuth))

\* The references(() => ...) of the columns, and the uniqueIndexes.
DrizzleRefs ==
    ({"cameras", "camera_groups", "detection_alerts", "detection_cursor"}
        \X {"boxes"})
    \cup ({"alerts", "alert_rules"} \X {"cameras"})
    \cup ({"web_push_subs", "telegram_subs", "webpush_subscriptions",
           "alert_destinations", "auth_token_blacklist"} \X {"users"})

DrizzleUniques ==
    {<<"users", {"username"}>>, <<"users", {"email"}>>, <<"boxes", {"base_url"}>>,
     <<"cameras", {"box_id", "channel_id"}>>,
     <<"webpush_subscriptions", {"user_id", "endpoint"}>>,
     <<"alert_destinations", {"user_id", "channel"}>>,
     <<"auth_token_blacklist", {"jti"}>>}

=============================================================================
