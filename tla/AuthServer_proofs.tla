-------------------------- MODULE AuthServer_proofs --------------------------
(* Proofs about the deployment, the sessions and their composition.        *)
EXTENDS AuthServer, FiniteSetTheorems, SequenceTheorems, TLAPS

-----------------------------------------------------------------------------
(* Least elements, in the place of induction.                              *)

LEMMA LeastNat ==
    ASSUME NEW T \in SUBSET Nat, T # {}
    PROVE  \E x \in T : \A y \in T : x <= y
<1>1. PICK x \in T : \A y \in T : ~ (<<y, x>> \in OpToRel(<, Nat))
  BY WFMin, NatLessThanWellFounded
<1>2. \A y \in T : ~ (y < x)
  BY <1>1 DEF OpToRel
<1> QED BY <1>2

-----------------------------------------------------------------------------
(* The schema after each file.                                             *)

LEMMA FilesAre == Len(Files) \in Nat \ {0} /\ DOMAIN Files = 1 .. Len(Files)
BY DEF Files

\* The recursive definition defines a function.
LEMMA SchemaStep ==
    /\ SchemaAfter[0] = EmptyDb
    /\ \A n \in 1 .. Len(Files) :
          SchemaAfter[n] = After(SchemaAfter[n - 1], Files[n], Len(Files[n]))
<1> DEFINE Step(prev, n) == After(prev, Files[n], Len(Files[n]))
           IsSchema(g, n) ==
               g = [k \in 0 .. n |-> IF k = 0 THEN EmptyDb ELSE Step(g[k - 1], k)]
           Without == {n \in 0 .. Len(Files) : ~ \E g : IsSchema(g, n)}
<1> HIDE DEF Step
<1>1. Without = {}
  <2> SUFFICES ASSUME Without # {} PROVE FALSE
    OBVIOUS
  <2>0. Without \in SUBSET Nat
    BY FilesAre
  <2>1. PICK m \in Without : \A y \in Without : m <= y
    <3> HIDE DEF Without
    <3> QED BY <2>0, LeastNat
  <2>2. m # 0
    <3>1. IsSchema([k \in 0 .. 0 |-> EmptyDb], 0)
      OBVIOUS
    <3> QED BY <3>1
  <2>3. m \in 0 .. Len(Files) /\ m - 1 \in 0 .. Len(Files) /\ m - 1 \notin Without
    <3>1. m \in 0 .. Len(Files)
      OBVIOUS
    <3>2. \A y \in Without : m <= y
      BY <2>1
    <3> HIDE DEF Without
    <3> QED BY <2>2, <3>1, <3>2, FilesAre
  <2>4. PICK g : IsSchema(g, m - 1)
    BY <2>3
  <2> DEFINE h == [k \in 0 .. m |-> IF k = m THEN Step(g[m - 1], m) ELSE g[k]]
  <2>5. \A k \in 0 .. m - 1 : h[k] = IF k = 0 THEN EmptyDb ELSE Step(h[k - 1], k)
    BY <2>1, <2>2, <2>3, <2>4
  <2>6. h[m] = Step(h[m - 1], m)
    BY <2>1, <2>2, <2>3
  <2>7. IsSchema(h, m)
    BY <2>1, <2>2, <2>5, <2>6
  <2> HIDE DEF h
  <2> QED BY <2>7
<1>2. PICK g : IsSchema(g, Len(Files))
  BY <1>1, FilesAre
<1>3. IsSchema(SchemaAfter, Len(Files))
  BY <1>2 DEF SchemaAfter, Step
<1> QED BY <1>3, FilesAre DEF Step

\* The schema that a set of statements makes up, each of which takes effect.
SchemaOf(S) ==
    [tables |-> [t \in {s.table : s \in S} |->
                    UNION {s.columns : s \in {x \in S : x.table = t}}],
     refs |-> UNION {{<<s.table, parent>> : parent \in s.refs} : s \in S},
     uniques |-> UNION {{<<s.table, u>> : u \in s.uniques} : s \in S}]

\* A statement that creates no table there is adds what it names.
LEMMA StatementAdds ==
    ASSUME NEW S, NEW s, s.op = "table" => s.table \notin {x.table : x \in S}
    PROVE  Run(SchemaOf(S), s) = SchemaOf(S \cup {s})
<1> DEFINE d == SchemaOf(S)
           e == SchemaOf(S \cup {s})
           Columns(Q, t) == UNION {x.columns : x \in {y \in Q : y.table = t}}
           added == [t \in DOMAIN d.tables \cup {s.table} |->
                        (IF t \in DOMAIN d.tables THEN d.tables[t] ELSE {})
                          \cup (IF t = s.table THEN s.columns ELSE {})]
<1>1. /\ d.tables = [t \in {x.table : x \in S} |-> Columns(S, t)]
      /\ e.tables = [t \in {x.table : x \in S \cup {s}} |-> Columns(S \cup {s}, t)]
  BY DEF SchemaOf
<1>2. ~ (s.op = "table" /\ s.table \in DOMAIN d.tables)
  BY <1>1
<1>3. Run(d, s) = [tables |-> added,
                   refs |-> d.refs \cup {<<s.table, parent>> : parent \in s.refs},
                   uniques |-> d.uniques \cup {<<s.table, u>> : u \in s.uniques}]
  BY <1>2 DEF Run
<1>4. added = e.tables
  <2>1. {x.table : x \in S \cup {s}} = {x.table : x \in S} \cup {s.table}
    OBVIOUS
  <2>2. DOMAIN d.tables = {x.table : x \in S}
    BY <1>1
  <2>3. ASSUME NEW t \in {x.table : x \in S} \cup {s.table}
        PROVE  added[t] = Columns(S \cup {s}, t)
    <3>1. Columns(S \cup {s}, t) =
            Columns(S, t) \cup (IF t = s.table THEN s.columns ELSE {})
      OBVIOUS
    <3>2. t \notin {x.table : x \in S} => Columns(S, t) = {}
      OBVIOUS
    <3>3. added[t] = (IF t \in {x.table : x \in S} THEN Columns(S, t) ELSE {})
                        \cup (IF t = s.table THEN s.columns ELSE {})
      BY <1>1
    <3> QED BY <3>1, <3>2, <3>3
  <2> QED BY <1>1, <2>1, <2>2, <2>3
<1>5. e.refs = d.refs \cup {<<s.table, parent>> : parent \in s.refs}
  BY DEF SchemaOf
<1>6. e.uniques = d.uniques \cup {<<s.table, u>> : u \in s.uniques}
  BY DEF SchemaOf
<1>7. e = [tables |-> e.tables, refs |-> e.refs, uniques |-> e.uniques]
  BY DEF SchemaOf
<1> HIDE DEF d, e, added
<1> QED BY <1>3, <1>4, <1>5, <1>6, <1>7 DEF d, e

\* The statements of a file.
Statements(file) == {file[i] : i \in 1 .. Len(file)}

\* The tables that a file creates are named by no statement before, of it or of S.
Creates(S, file) ==
    \A i \in 1 .. Len(file) : file[i].op = "table" =>
        /\ file[i].table \notin {s.table : s \in S}
        /\ \A j \in 1 .. i - 1 : file[j].table # file[i].table

\* A file adds its statements to the schema of those before.
LEMMA FileAdds ==
    ASSUME NEW S, NEW file, Len(file) \in Nat, Creates(S, file)
    PROVE  After(SchemaOf(S), file, Len(file)) = SchemaOf(S \cup Statements(file))
<1> DEFINE n == Len(file)
           Upto(k) == S \cup {file[i] : i \in 1 .. k}
           h == [k \in 0 .. n |-> SchemaOf(Upto(k))]
           F(g) == [k \in 0 .. n |-> IF k = 0 THEN SchemaOf(S) ELSE Run(g[k - 1], file[k])]
<1>1. ASSUME NEW k \in 1 .. n PROVE SchemaOf(Upto(k)) = Run(SchemaOf(Upto(k - 1)), file[k])
  <2>1. Upto(k) = Upto(k - 1) \cup {file[k]}
    <3>1. 1 .. k = (1 .. k - 1) \cup {k}
      OBVIOUS
    <3> QED BY <3>1
  <2>2. file[k].op = "table" => file[k].table \notin {x.table : x \in Upto(k - 1)}
    BY DEF Creates
  <2> HIDE DEF Upto
  <2> QED BY <2>1, <2>2, StatementAdds
<1>2. Upto(0) = S /\ Upto(n) = S \cup Statements(file)
  BY DEF Statements
<1>0. n \in 0 .. n
  OBVIOUS
<1> HIDE DEF Upto
<1>3. h = F(h)
  BY <1>1, <1>2
<1>4. After(SchemaOf(S), file, n) = (CHOOSE g : g = F(g))[n]
  BY DEF After
<1>5. ASSUME NEW g, g = F(g) PROVE g[n] = h[n]
  <2> DEFINE Differ == {k \in 0 .. n : g[k] # h[k]}
  <2>1. Differ = {}
    <3> SUFFICES ASSUME Differ # {} PROVE FALSE
      OBVIOUS
    <3>1. PICK m \in Differ : \A y \in Differ : m <= y
      <4>1. Differ \in SUBSET Nat
        OBVIOUS
      <4> HIDE DEF Differ
      <4> QED BY <4>1, LeastNat
    <3>2. m \in 0 .. n /\ g[m] # h[m]
      BY <3>1
    <3>3. g[0] = SchemaOf(S) /\ h[0] = SchemaOf(S)
      BY <1>2, <1>5
    <3>4. m # 0
      BY <3>2, <3>3
    <3>5. m - 1 \in 0 .. n /\ m - 1 \notin Differ
      BY <3>1, <3>2, <3>4
    <3>6. g[m - 1] = h[m - 1]
      BY <3>5
    <3>7. g[m] = Run(g[m - 1], file[m]) /\ h[m] = Run(h[m - 1], file[m])
      BY <1>3, <1>5, <3>2, <3>4
    <3> QED BY <3>2, <3>6, <3>7
  <2> QED BY <1>0, <2>1
<1>6. (CHOOSE g : g = F(g)) = F(CHOOSE g : g = F(g))
  <2> HIDE DEF F, h
  <2> QED BY <1>3
<1>7. h[n] = SchemaOf(S \cup Statements(file))
  BY <1>0, <1>2
<1> HIDE DEF F, h
<1> QED BY <1>4, <1>5, <1>6, <1>7

\* The statements of each file, field by field.
LEMMA Written1 ==
    LET file == M0001_init
    IN  /\ Len(file) = 10 /\ Statements(file) = {
             file[1], file[2], file[3], file[4], file[5], file[6], file[7], file[8],
             file[9], file[10]}
        /\ file[1].op = "table" /\ file[1].table = "users"
        /\ file[1].columns = {"id", "username", "email", "password_hash"} \cup Stamps
        /\ file[1].refs = {} /\ file[1].uniques = {}
        /\ file[2].op # "table" /\ file[2].table = "users"
        /\ file[2].columns = {}
        /\ file[2].refs = {} /\ file[2].uniques = {{"username"}}
        /\ file[3].op # "table" /\ file[3].table = "users"
        /\ file[3].columns = {}
        /\ file[3].refs = {} /\ file[3].uniques = {{"email"}}
        /\ file[4].op = "table" /\ file[4].table = "boxes"
        /\ file[4].columns = {"id", "name", "base_url", "username", "password_enc",
             "jwt_cached", "jwt_obtained_at", "api_key_cached", "last_sync_at", "status"}
             \cup Stamps
        /\ file[4].refs = {} /\ file[4].uniques = {}
        /\ file[5].op = "table" /\ file[5].table = "cameras"
        /\ file[5].columns = {"id", "box_id", "channel_id", "name", "latitude",
             "longitude", "resolution", "stream_url", "status"} \cup Stamps
        /\ file[5].refs = {"boxes"} /\ file[5].uniques = {}
        /\ file[6].op = "table" /\ file[6].table = "camera_groups"
        /\ file[6].columns = {"id", "name", "box_id"} \cup Stamps
        /\ file[6].refs = {"boxes"} /\ file[6].uniques = {}
        /\ file[7].op = "table" /\ file[7].table = "alerts"
        /\ file[7].columns = {"id", "camera_id", "type", "confidence", "timestamp",
             "image_url", "processed", "created_at"}
        /\ file[7].refs = {"cameras"} /\ file[7].uniques = {}
        /\ file[8].op = "table" /\ file[8].table = "alert_rules"
        /\ file[8].columns = {"id", "camera_id", "alert_type", "enabled",
             "notify_toast", "notify_web_push", "notify_telegram"} \cup Stamps
        /\ file[8].refs = {"cameras"} /\ file[8].uniques = {}
        /\ file[9].op = "table" /\ file[9].table = "web_push_subs"
        /\ file[9].columns = {"id", "user_id", "endpoint", "auth", "p256dh"} \cup
             Stamps
        /\ file[9].refs = {"users"} /\ file[9].uniques = {}
        /\ file[10].op = "table" /\ file[10].table = "telegram_subs"
        /\ file[10].columns = {"id", "user_id", "chat_id"} \cup Stamps
        /\ file[10].refs = {"users"} /\ file[10].uniques = {}
<1>1. 1 .. 10 = {1, 2, 3, 4, 5, 6, 7, 8, 9, 10}
  OBVIOUS
<1>2. Len(M0001_init) = 10
  BY DEF M0001_init
<1>3. Statements(M0001_init) =
        {M0001_init[1], M0001_init[2], M0001_init[3], M0001_init[4], M0001_init[5],
        M0001_init[6], M0001_init[7], M0001_init[8], M0001_init[9], M0001_init[10]}
  BY <1>1, <1>2 DEF Statements
<1> QED BY <1>2, <1>3 DEF M0001_init, Table, Unique

LEMMA Written2 ==
    LET file == M0002_auth_blacklist
    IN  /\ Len(file) = 1 /\ Statements(file) = {file[1]}
        /\ file[1].op = "table" /\ file[1].table = "auth_token_blacklist"
        /\ file[1].columns = {"id", "jti", "user_id", "expires_at", "created_at"}
        /\ file[1].refs = {"users"} /\ file[1].uniques = {{"jti"}}
<1>1. 1 .. 1 = {1}
  OBVIOUS
<1>2. Len(M0002_auth_blacklist) = 1
  BY DEF M0002_auth_blacklist
<1>3. Statements(M0002_auth_blacklist) = {M0002_auth_blacklist[1]}
  BY <1>1, <1>2 DEF Statements
<1> QED BY <1>2, <1>3 DEF M0002_auth_blacklist, Table

LEMMA Written3 ==
    LET file == M0003_box_vault
    IN  /\ Len(file) = 2 /\ Statements(file) = {file[1], file[2]}
        /\ file[1].op # "table" /\ file[1].table = "boxes"
        /\ file[1].columns = {"jwt_cached_enc"}
        /\ file[1].refs = {} /\ file[1].uniques = {}
        /\ file[2].op # "table" /\ file[2].table = "boxes"
        /\ file[2].columns = {"api_key_cached_enc"}
        /\ file[2].refs = {} /\ file[2].uniques = {}
<1>1. 1 .. 2 = {1, 2}
  OBVIOUS
<1>2. Len(M0003_box_vault) = 2
  BY DEF M0003_box_vault
<1>3. Statements(M0003_box_vault) =
        {M0003_box_vault[1], M0003_box_vault[2]}
  BY <1>1, <1>2 DEF Statements
<1> QED BY <1>2, <1>3 DEF M0003_box_vault, Column

LEMMA Written4 ==
    LET file == M0004_box_unique_url
    IN  /\ Len(file) = 1 /\ Statements(file) = {file[1]}
        /\ file[1].op # "table" /\ file[1].table = "boxes"
        /\ file[1].columns = {}
        /\ file[1].refs = {} /\ file[1].uniques = {{"base_url"}}
<1>1. 1 .. 1 = {1}
  OBVIOUS
<1>2. Len(M0004_box_unique_url) = 1
  BY DEF M0004_box_unique_url
<1>3. Statements(M0004_box_unique_url) = {M0004_box_unique_url[1]}
  BY <1>1, <1>2 DEF Statements
<1> QED BY <1>2, <1>3 DEF M0004_box_unique_url, Unique

LEMMA Written5 ==
    LET file == M0005_add_camera_sync_columns
    IN  /\ Len(file) = 3 /\ Statements(file) = {file[1], file[2], file[3]}
        /\ file[1].op # "table" /\ file[1].table = "cameras"
        /\ file[1].columns = {"last_synced_at"}
        /\ file[1].refs = {} /\ file[1].uniques = {}
        /\ file[2].op # "table" /\ file[2].table = "cameras"
        /\ file[2].columns = {"sync_error"}
        /\ file[2].refs = {} /\ file[2].uniques = {}
        /\ file[3].op # "table" /\ file[3].table = "cameras"
        /\ file[3].columns = {}
        /\ file[3].refs = {} /\ file[3].uniques = {{"box_id", "channel_id"}}
<1>1. 1 .. 3 = {1, 2, 3}
  OBVIOUS
<1>2. Len(M0005_add_camera_sync_columns) = 3
  BY DEF M0005_add_camera_sync_columns
<1>3. Statements(M0005_add_camera_sync_columns) =
        {M0005_add_camera_sync_columns[1], M0005_add_camera_sync_columns[2],
        M0005_add_camera_sync_columns[3]}
  BY <1>1, <1>2 DEF Statements
<1> QED BY <1>2, <1>3 DEF M0005_add_camera_sync_columns, Column, Unique

LEMMA Written6 ==
    LET file == M0006_alerts_and_models
    IN  /\ Len(file) = 4 /\ Statements(file) = {file[1], file[2], file[3], file[4]}
        /\ file[1].op = "table" /\ file[1].table = "webpush_subscriptions"
        /\ file[1].columns = {"id", "user_id", "endpoint", "p256dh", "auth",
             "created_at"}
        /\ file[1].refs = {"users"} /\ file[1].uniques = {{"user_id", "endpoint"}}
        /\ file[2].op = "table" /\ file[2].table = "alert_destinations"
        /\ file[2].columns = {"id", "user_id", "channel", "enabled", "config_json"}
             \cup Stamps
        /\ file[2].refs = {"users"} /\ file[2].uniques = {{"user_id", "channel"}}
        /\ file[3].op = "table" /\ file[3].table = "detection_alerts"
        /\ file[3].columns = {"id", "box_id", "channel_id", "type", "payload_json",
             "fired_at", "status", "created_at"}
        /\ file[3].refs = {"boxes"} /\ file[3].uniques = {}
        /\ file[4].op = "table" /\ file[4].table = "detection_cursor"
        /\ file[4].columns = {"box_id", "channel_id", "last_seen_timestamp",
             "updated_at"}
        /\ file[4].refs = {"boxes"} /\ file[4].uniques = {{"box_id", "channel_id"}}
<1>1. 1 .. 4 = {1, 2, 3, 4}
  OBVIOUS
<1>2. Len(M0006_alerts_and_models) = 4
  BY DEF M0006_alerts_and_models
<1>3. Statements(M0006_alerts_and_models) =
        {M0006_alerts_and_models[1], M0006_alerts_and_models[2],
        M0006_alerts_and_models[3], M0006_alerts_and_models[4]}
  BY <1>1, <1>2 DEF Statements
<1> QED BY <1>2, <1>3 DEF M0006_alerts_and_models, Table

LEMMA Written7 ==
    LET file == M0007_camera_ble_beacon_count
    IN  /\ Len(file) = 1 /\ Statements(file) = {file[1]}
        /\ file[1].op # "table" /\ file[1].table = "cameras"
        /\ file[1].columns = {"ble_beacon_count"}
        /\ file[1].refs = {} /\ file[1].uniques = {}
<1>1. 1 .. 1 = {1}
  OBVIOUS
<1>2. Len(M0007_camera_ble_beacon_count) = 1
  BY DEF M0007_camera_ble_beacon_count
<1>3. Statements(M0007_camera_ble_beacon_count) = {M0007_camera_ble_beacon_count[1]}
  BY <1>1, <1>2 DEF Statements
<1> QED BY <1>2, <1>3 DEF M0007_camera_ble_beacon_count, Column

\* The statements of all files.
AllStatements == UNION {Statements(Files[n]) : n \in 1 .. Len(Files)}

LEMMA AllAre ==
    AllStatements =
        Statements(M0001_init) \cup Statements(M0002_auth_blacklist)
        \cup Statements(M0003_box_vault) \cup Statements(M0004_box_unique_url)
        \cup Statements(M0005_add_camera_sync_columns)
        \cup Statements(M0006_alerts_and_models)
        \cup Statements(M0007_camera_ble_beacon_count)
<1>1. 1 .. 7 = {1, 2, 3, 4, 5, 6, 7}
  OBVIOUS
<1>2. Len(Files) = 7
  BY DEF Files
<1> QED BY <1>1, <1>2 DEF AllStatements, Files

LEMMA TableNames ==
    {s.table : s \in AllStatements} =
        {"users", "boxes", "cameras", "camera_groups", "alerts", "alert_rules",
        "web_push_subs", "telegram_subs", "auth_token_blacklist",
        "webpush_subscriptions", "alert_destinations", "detection_alerts",
        "detection_cursor"}
BY AllAre, Written1, Written2, Written3, Written4, Written5, Written6, Written7

\* For each table, the columns of its statements are those the code declares.
LEMMA ColumnsAre ==
    ASSUME NEW t \in {s.table : s \in AllStatements}
    PROVE  UNION {s.columns : s \in {x \in AllStatements : x.table = t}} = DrizzleTables[t]
<1> DEFINE Of(name) == {x \in AllStatements : x.table = name}
           Columns(S) == UNION {s.columns : s \in S}
<1> USE DEF DrizzleTables, Joined, DrizzleColumns, DrizzleOldTables, DrizzleAlertTables,
            DrizzleAuth
<1>1. Columns(Of("users")) = DrizzleTables["users"]
  <2>1. Of("users") =
          {M0001_init[1], M0001_init[2], M0001_init[3]}
    BY AllAre, Written1, Written2, Written3, Written4, Written5, Written6, Written7
  <2>2. DrizzleTables["users"] =
          M0001_init[1].columns \cup M0001_init[2].columns \cup M0001_init[3].columns
    BY Written1
  <2> QED BY <2>1, <2>2
<1>2. Columns(Of("boxes")) = DrizzleTables["boxes"]
  <2>1. Of("boxes") =
          {M0001_init[4], M0003_box_vault[1], M0003_box_vault[2],
           M0004_box_unique_url[1]}
    BY AllAre, Written1, Written2, Written3, Written4, Written5, Written6, Written7
  <2>2. DrizzleTables["boxes"] =
          M0001_init[4].columns \cup M0003_box_vault[1].columns
          \cup M0003_box_vault[2].columns \cup M0004_box_unique_url[1].columns
    BY Written1, Written3, Written4
  <2> QED BY <2>1, <2>2
<1>3. Columns(Of("cameras")) = DrizzleTables["cameras"]
  <2>1. Of("cameras") =
          {M0001_init[5], M0005_add_camera_sync_columns[1],
           M0005_add_camera_sync_columns[2], M0005_add_camera_sync_columns[3],
           M0007_camera_ble_beacon_count[1]}
    BY AllAre, Written1, Written2, Written3, Written4, Written5, Written6, Written7
  <2>2. DrizzleTables["cameras"] =
          M0001_init[5].columns \cup M0005_add_camera_sync_columns[1].columns
          \cup M0005_add_camera_sync_columns[2].columns
          \cup M0005_add_camera_sync_columns[3].columns
          \cup M0007_camera_ble_beacon_count[1].columns
    BY Written1, Written5, Written7
  <2> QED BY <2>1, <2>2
<1>4. Columns(Of("camera_groups")) = DrizzleTables["camera_groups"]
  <2>1. Of("camera_groups") = {M0001_init[6]}
    BY AllAre, Written1, Written2, Written3, Written4, Written5, Written6, Written7
  <2> QED BY <2>1, Written1
<1>5. Columns(Of("alerts")) = DrizzleTables["alerts"]
  <2>1. Of("alerts") = {M0001_init[7]}
    BY AllAre, Written1, Written2, Written3, Written4, Written5, Written6, Written7
  <2> QED BY <2>1, Written1
<1>6. Columns(Of("alert_rules")) = DrizzleTables["alert_rules"]
  <2>1. Of("alert_rules") = {M0001_init[8]}
    BY AllAre, Written1, Written2, Written3, Written4, Written5, Written6, Written7
  <2> QED BY <2>1, Written1
<1>7. Columns(Of("web_push_subs")) = DrizzleTables["web_push_subs"]
  <2>1. Of("web_push_subs") = {M0001_init[9]}
    BY AllAre, Written1, Written2, Written3, Written4, Written5, Written6, Written7
  <2> QED BY <2>1, Written1
<1>8. Columns(Of("telegram_subs")) = DrizzleTables["telegram_subs"]
  <2>1. Of("telegram_subs") = {M0001_init[10]}
    BY AllAre, Written1, Written2, Written3, Written4, Written5, Written6, Written7
  <2> QED BY <2>1, Written1
<1>9. Columns(Of("auth_token_blacklist")) = DrizzleTables["auth_token_blacklist"]
  <2>1. Of("auth_token_blacklist") = {M0002_auth_blacklist[1]}
    BY AllAre, Written1, Written2, Written3, Written4, Written5, Written6, Written7
  <2> QED BY <2>1, Written2
<1>10. Columns(Of("webpush_subscriptions")) = DrizzleTables["webpush_subscriptions"]
  <2>1. Of("webpush_subscriptions") = {M0006_alerts_and_models[1]}
    BY AllAre, Written1, Written2, Written3, Written4, Written5, Written6, Written7
  <2> QED BY <2>1, Written6
<1>11. Columns(Of("alert_destinations")) = DrizzleTables["alert_destinations"]
  <2>1. Of("alert_destinations") = {M0006_alerts_and_models[2]}
    BY AllAre, Written1, Written2, Written3, Written4, Written5, Written6, Written7
  <2> QED BY <2>1, Written6
<1>12. Columns(Of("detection_alerts")) = DrizzleTables["detection_alerts"]
  <2>1. Of("detection_alerts") = {M0006_alerts_and_models[3]}
    BY AllAre, Written1, Written2, Written3, Written4, Written5, Written6, Written7
  <2> QED BY <2>1, Written6
<1>13. Columns(Of("detection_cursor")) = DrizzleTables["detection_cursor"]
  <2>1. Of("detection_cursor") = {M0006_alerts_and_models[4]}
    BY AllAre, Written1, Written2, Written3, Written4, Written5, Written6, Written7
  <2> QED BY <2>1, Written6
<1> HIDE DEF Columns, Of, DrizzleTables
<1>14. Columns(Of(t)) = DrizzleTables[t]
  BY TableNames, <1>1, <1>2, <1>3, <1>4, <1>5, <1>6, <1>7, <1>8, <1>9, <1>10, <1>11,
  <1>12, <1>13
<1> QED BY <1>14 DEF Columns, Of

LEMMA RefsAre ==
    UNION {{<<s.table, parent>> : parent \in s.refs} : s \in AllStatements} = DrizzleRefs
BY AllAre, Written1, Written2, Written3, Written4, Written5, Written6, Written7
DEF DrizzleRefs

LEMMA UniquesAre ==
    DrizzleUniques \subseteq
        UNION {{<<s.table, u>> : u \in s.uniques} : s \in AllStatements}
<1> DEFINE All == UNION {{<<s.table, u>> : u \in s.uniques} : s \in AllStatements}
<1>1. \A s \in AllStatements : \A u \in s.uniques : <<s.table, u>> \in All
  OBVIOUS
<1> HIDE DEF All
<1>2. <<"users", {"username"}>> \in All
  <2>1. M0001_init[2] \in AllStatements
    BY AllAre, Written1
  <2> QED BY <1>1, <2>1, Written1
<1>3. <<"users", {"email"}>> \in All
  <2>1. M0001_init[3] \in AllStatements
    BY AllAre, Written1
  <2> QED BY <1>1, <2>1, Written1
<1>4. <<"auth_token_blacklist", {"jti"}>> \in All
  <2>1. M0002_auth_blacklist[1] \in AllStatements
    BY AllAre, Written2
  <2> QED BY <1>1, <2>1, Written2
<1>5. <<"boxes", {"base_url"}>> \in All
  <2>1. M0004_box_unique_url[1] \in AllStatements
    BY AllAre, Written4
  <2> QED BY <1>1, <2>1, Written4
<1>6. <<"cameras", {"box_id", "channel_id"}>> \in All
  <2>1. M0005_add_camera_sync_columns[3] \in AllStatements
    BY AllAre, Written5
  <2> QED BY <1>1, <2>1, Written5
<1>7. <<"webpush_subscriptions", {"user_id", "endpoint"}>> \in All
  <2>1. M0006_alerts_and_models[1] \in AllStatements
    BY AllAre, Written6
  <2> QED BY <1>1, <2>1, Written6
<1>8. <<"alert_destinations", {"user_id", "channel"}>> \in All
  <2>1. M0006_alerts_and_models[2] \in AllStatements
    BY AllAre, Written6
  <2> QED BY <1>1, <2>1, Written6
<1> QED BY <1>2, <1>3, <1>4, <1>5, <1>6, <1>7, <1>8 DEF DrizzleUniques, All

\* Every statement of every file takes effect: no CREATE TABLE IF NOT EXISTS meets a
\* table that is there.
StatementsUpTo(n) == UNION {Statements(Files[k]) : k \in 1 .. n}

LEMMA SchemaIs == \A n \in 0 .. Len(Files) : SchemaAfter[n] = SchemaOf(StatementsUpTo(n))
<1> DEFINE Before(n) == StatementsUpTo(n)
<1> USE DEF StatementsUpTo
<1>1. /\ Len(Files) = 7
      /\ Files[1] = M0001_init
      /\ Files[2] = M0002_auth_blacklist
      /\ Files[3] = M0003_box_vault
      /\ Files[4] = M0004_box_unique_url
      /\ Files[5] = M0005_add_camera_sync_columns
      /\ Files[6] = M0006_alerts_and_models
      /\ Files[7] = M0007_camera_ble_beacon_count
  BY DEF Files
<1>2. SchemaAfter[0] = SchemaOf({})
  BY SchemaStep DEF EmptyDb, NoTables, SchemaOf
<1>3. ASSUME NEW n \in 1 .. 7, SchemaAfter[n - 1] = SchemaOf(Before(n - 1)),
             Len(Files[n]) \in Nat, Creates(Before(n - 1), Files[n])
      PROVE  SchemaAfter[n] = SchemaOf(Before(n))
  <2>1. 1 .. n = (1 .. n - 1) \cup {n}
    OBVIOUS
  <2>2. Before(n) = Before(n - 1) \cup Statements(Files[n])
    BY <2>1
  <2>3. SchemaAfter[n] = After(SchemaAfter[n - 1], Files[n], Len(Files[n]))
    BY <1>1, SchemaStep
  <2> HIDE DEF Before
  <2> QED BY <1>3, <2>2, <2>3, FileAdds
<1>4. Before(0) = {}
  OBVIOUS
<1>5. Before(1) = Statements(M0001_init)
  <2>1. 1 .. 1 = {1}
    OBVIOUS
  <2> QED BY <1>1, <2>1
<1>6. Before(5) =
           Statements(M0001_init) \cup Statements(M0002_auth_blacklist)
           \cup Statements(M0003_box_vault) \cup Statements(M0004_box_unique_url)
           \cup Statements(M0005_add_camera_sync_columns)
  <2>1. 1 .. 5 = {1, 2, 3, 4, 5}
    OBVIOUS
  <2> QED BY <1>1, <2>1
<1> HIDE DEF Before
<1>7. SchemaAfter[1] = SchemaOf(Before(1))
  <2>1. Creates(Before(0), Files[1]) /\ Len(Files[1]) \in Nat
    BY <1>1, <1>4, Written1 DEF Creates
  <2>2. 1 \in 1 .. 7 /\ 1 - 1 = 0
    OBVIOUS
  <2> QED BY <1>2, <1>3, <1>4, <2>1, <2>2
<1>8. SchemaAfter[2] = SchemaOf(Before(2))
  <2>1. {s.table : s \in Before(1)} =
          {"users", "boxes", "cameras", "camera_groups", "alerts", "alert_rules",
           "web_push_subs", "telegram_subs"}
    BY <1>5, Written1
  <2>2. Creates(Before(1), Files[2]) /\ Len(Files[2]) \in Nat
    BY <1>1, <2>1, Written2 DEF Creates
  <2>3. 2 \in 1 .. 7 /\ 2 - 1 = 1
    OBVIOUS
  <2> QED BY <1>3, <1>7, <2>2, <2>3
<1>9. SchemaAfter[3] = SchemaOf(Before(3))
  <2>1. Creates(Before(2), Files[3]) /\ Len(Files[3]) \in Nat
    BY <1>1, Written3 DEF Creates
  <2>2. 3 \in 1 .. 7 /\ 3 - 1 = 2
    OBVIOUS
  <2> QED BY <1>3, <1>8, <2>1, <2>2
<1>10. SchemaAfter[4] = SchemaOf(Before(4))
  <2>1. Creates(Before(3), Files[4]) /\ Len(Files[4]) \in Nat
    BY <1>1, Written4 DEF Creates
  <2>2. 4 \in 1 .. 7 /\ 4 - 1 = 3
    OBVIOUS
  <2> QED BY <1>3, <1>9, <2>1, <2>2
<1>11. SchemaAfter[5] = SchemaOf(Before(5))
  <2>1. Creates(Before(4), Files[5]) /\ Len(Files[5]) \in Nat
    BY <1>1, Written5 DEF Creates
  <2>2. 5 \in 1 .. 7 /\ 5 - 1 = 4
    OBVIOUS
  <2> QED BY <1>3, <1>10, <2>1, <2>2
<1>12. SchemaAfter[6] = SchemaOf(Before(6))
  <2>1. {s.table : s \in Before(5)} =
          {"users", "boxes", "cameras", "camera_groups", "alerts", "alert_rules",
           "web_push_subs", "telegram_subs", "auth_token_blacklist"}
    BY <1>6, Written1, Written2, Written3, Written4, Written5
  <2>2. Creates(Before(5), Files[6]) /\ Len(Files[6]) \in Nat
    <3>1. Len(Files[6]) = 4
      BY <1>1, Written6
    <3>2. /\ Files[6][1].table = "webpush_subscriptions"
          /\ Files[6][2].table = "alert_destinations"
          /\ Files[6][3].table = "detection_alerts"
          /\ Files[6][4].table = "detection_cursor"
      BY <1>1, Written6
    <3>3. \A i \in 1 .. 4 : i = 1 \/ i = 2 \/ i = 3 \/ i = 4
      OBVIOUS
    <3>4. \A i \in 1 .. 4 : Files[6][i].table \notin {s.table : s \in Before(5)}
      BY <2>1, <3>2, <3>3
    <3>5. \A i \in 1 .. 4 : \A j \in 1 .. i - 1 :
            Files[6][j].table # Files[6][i].table
      BY <3>2, <3>3
    <3> QED BY <3>1, <3>4, <3>5 DEF Creates
  <2>3. 6 \in 1 .. 7 /\ 6 - 1 = 5
    OBVIOUS
  <2> QED BY <1>3, <1>11, <2>2, <2>3
<1>13. SchemaAfter[7] = SchemaOf(Before(7))
  <2>1. Creates(Before(6), Files[7]) /\ Len(Files[7]) \in Nat
    BY <1>1, Written7 DEF Creates
  <2>2. 7 \in 1 .. 7 /\ 7 - 1 = 6
    OBVIOUS
  <2> QED BY <1>3, <1>12, <2>1, <2>2
<1>14. 0 .. 7 = {0, 1, 2, 3, 4, 5, 6, 7}
  OBVIOUS
<1>15. \A n \in 0 .. 7 : SchemaAfter[n] = SchemaOf(Before(n))
  BY <1>2, <1>4, <1>7, <1>8, <1>9, <1>10, <1>11, <1>12, <1>13, <1>14
<1> QED BY <1>1, <1>15 DEF Before

LEMMA SchemaComplete == SchemaAfter[Len(Files)] = SchemaOf(AllStatements)
<1>1. StatementsUpTo(Len(Files)) = AllStatements
  BY DEF StatementsUpTo, AllStatements
<1>2. Len(Files) \in 0 .. Len(Files)
  BY FilesAre
<1> QED BY <1>1, <1>2, SchemaIs

\* From the first file on there is the UNIQUE key that INSERT OR IGNORE relies on.
LEMMA UsersKey ==
    ASSUME NEW n \in 1 .. Len(Files)
    PROVE  <<"users", {"username"}>> \in SchemaAfter[n].uniques
<1>1. M0001_init[2] \in StatementsUpTo(n)
  <2>1. Files[1] = M0001_init
    BY DEF Files
  <2>2. 1 \in 1 .. n /\ M0001_init[2] \in Statements(Files[1])
    BY <2>1, FilesAre, Written1
  <2> QED BY <2>2 DEF StatementsUpTo
<1>2. SchemaAfter[n] = SchemaOf(StatementsUpTo(n))
  BY SchemaIs, FilesAre
<1>3. M0001_init[2].table = "users" /\ {"username"} \in M0001_init[2].uniques
  BY Written1
<1> QED BY <1>1, <1>2, <1>3 DEF SchemaOf

\* What the migration files build is what the code declares.
LEMMA SchemaAgrees ==
    /\ SchemaAfter[Len(Files)].tables = DrizzleTables
    /\ SchemaAfter[Len(Files)].refs = DrizzleRefs
    /\ DrizzleUniques \subseteq SchemaAfter[Len(Files)].uniques
<1>1. DrizzleTables = [t \in {s.table : s \in AllStatements} |-> DrizzleTables[t]]
  BY TableNames DEF DrizzleTables, Joined, DrizzleColumns, DrizzleOldTables,
                    DrizzleAlertTables, DrizzleAuth
<1>2. SchemaOf(AllStatements).tables = DrizzleTables
  <2> DEFINE Columns(t) == UNION {s.columns : s \in {x \in AllStatements : x.table = t}}
  <2>1. SchemaOf(AllStatements).tables =
          [t \in {s.table : s \in AllStatements} |-> Columns(t)]
    BY DEF SchemaOf
  <2>2. \A t \in {s.table : s \in AllStatements} : Columns(t) = DrizzleTables[t]
    BY ColumnsAre
  <2> HIDE DEF Columns
  <2> QED BY <1>1, <2>1, <2>2
<1> QED BY <1>2, RefsAre, UniquesAre, SchemaComplete DEF SchemaOf

-----------------------------------------------------------------------------
(* The deployment.                                                         *)

LEMMA NextFileIs ==
    ASSUME DeploymentTypeOK, NEW r \in Runner
    PROVE  /\ NextFile(r) \in [pc : {"looking", "done"}, file : DOMAIN Files]
           /\ NextFile(r).pc = "looking" => NextFile(r).file = runner[r].file + 1
           /\ NextFile(r).pc = "done" =>
                 NextFile(r).file = runner[r].file /\ runner[r].file = Len(Files)
<1>1. runner[r].file \in 1 .. Len(Files)
  BY FilesAre DEF DeploymentTypeOK
<1>2. CASE runner[r].file = Len(Files)
  BY <1>1, <1>2, FilesAre DEF NextFile
<1>3. CASE runner[r].file # Len(Files)
  <2>1. runner[r].file + 1 \in DOMAIN Files
    BY <1>1, <1>3, FilesAre
  <2> QED BY <1>3, <2>1 DEF NextFile
<1> QED BY <1>2, <1>3

LEMMA DeploymentTypeStep ==
    ASSUME DeploymentTypeOK, NextDeployment
    PROVE  DeploymentTypeOK'
<1> USE DEF DeploymentTypeOK
<1>1. ASSUME NEW r \in Runner, LookUp(r) PROVE DeploymentTypeOK'
  <2>1. NextFile(r) \in [pc : {"looking", "new", "failed", "done"}, file : DOMAIN Files]
    BY NextFileIs
  <2>2. [runner[r] EXCEPT !.pc = "new"] \in
            [pc : {"looking", "new", "failed", "done"}, file : DOMAIN Files]
    OBVIOUS
  <2> QED BY <1>1, <2>1, <2>2 DEF LookUp
<1>2. ASSUME NEW r \in Runner, Migrate(r) PROVE DeploymentTypeOK'
  <2>1. NextFile(r) \in [pc : {"looking", "new", "failed", "done"}, file : DOMAIN Files]
    BY NextFileIs
  <2>2. CASE ApplyFile(r)
    BY <1>2, <2>1, <2>2 DEF Migrate, ApplyFile
  <2>3. CASE ApplyFails(r)
    BY <1>2, <2>3 DEF Migrate, ApplyFails
  <2> QED BY <1>2, <2>2, <2>3 DEF Migrate
<1>3. ASSUME NEW r \in Runner, RestartRunner(r) PROVE DeploymentTypeOK'
  BY <1>3, FilesAre DEF RestartRunner
<1>4. ASSUME NEW s \in Seeder, SeedLookUp(s) PROVE DeploymentTypeOK'
  BY <1>4 DEF SeedLookUp
<1>5. ASSUME NEW s \in Seeder, SeedInsert(s) PROVE DeploymentTypeOK'
  BY <1>5 DEF SeedInsert, SeedRow
<1> QED BY <1>1, <1>2, <1>3, <1>4, <1>5 DEF NextDeployment

\* What a runner knows: the files before its own are recorded, and at its end
\* so is the last.
RunnersKnow ==
    \A r \in Runner :
        /\ 1 .. runner[r].file - 1 \subseteq journal
        /\ runner[r].pc = "done" => Len(Files) \in journal

MigrationInv == MigratedWhole /\ RunnersKnow

\* A file that is not recorded though all before it are is the next one.
LEMMA ApplyFileNext ==
    ASSUME DeploymentTypeOK, MigrationInv, NEW r \in Runner,
           runner[r].file \notin journal, ApplyFile(r)
    PROVE  MigrationInv'
<1> DEFINE f == runner[r].file
<1>1. PICK n \in 0 .. Len(Files) : journal = 1 .. n /\ db = SchemaAfter[n]
  BY DEF MigrationInv, MigratedWhole
<1>2. f \in 1 .. Len(Files)
  BY FilesAre DEF DeploymentTypeOK
<1>3. f = n + 1
  <2>1. 1 .. f - 1 \subseteq 1 .. n
    BY <1>1 DEF MigrationInv, RunnersKnow
  <2>2. f > n
    BY <1>1, <1>2, FilesAre
  <2>3. f - 1 <= n
    BY <1>2, <2>1, FilesAre
  <2> QED BY <1>2, <2>2, <2>3, FilesAre
<1>4. journal' = 1 .. f
  BY <1>1, <1>2, <1>3, FilesAre DEF ApplyFile
<1>5. db' = SchemaAfter[f]
  BY <1>1, <1>2, <1>3, SchemaStep, FilesAre DEF ApplyFile
<1>6. MigratedWhole'
  BY <1>2, <1>4, <1>5, FilesAre DEF MigratedWhole
<1>7. RunnersKnow'
  <2>1. journal \subseteq journal'
    BY DEF ApplyFile
  <2>2. runner' = [runner EXCEPT ![r] = NextFile(r)]
    BY DEF ApplyFile
  <2>3. runner'[r] = NextFile(r)
    BY <2>2 DEF DeploymentTypeOK
  <2>4. /\ 1 .. runner'[r].file - 1 \subseteq journal'
        /\ runner'[r].pc = "done" => Len(Files) \in journal'
    <3>1. CASE NextFile(r).pc = "looking"
      BY <1>2, <1>4, <2>3, <3>1, NextFileIs
    <3>2. CASE NextFile(r).pc = "done"
      BY <1>2, <1>4, <2>3, <3>2, NextFileIs, FilesAre
    <3> QED BY <3>1, <3>2, NextFileIs
  <2>5. \A q \in Runner \ {r} : runner'[q] = runner[q]
    BY <2>2 DEF DeploymentTypeOK
  <2> QED BY <2>1, <2>4, <2>5 DEF RunnersKnow, MigrationInv
<1> QED BY <1>6, <1>7 DEF MigrationInv

LEMMA MigrationStep ==
    ASSUME DeploymentTypeOK, MigrationInv, NextDeployment
    PROVE  MigrationInv'
<1>1. ASSUME NEW r \in Runner, LookUp(r) PROVE MigrationInv'
  <2>1. MigratedWhole'
    BY <1>1 DEF LookUp, MigrationInv, MigratedWhole
  <2>2. \A q \in Runner \ {r} : runner'[q] = runner[q]
    BY <1>1 DEF LookUp, DeploymentTypeOK
  <2>3. runner[r].file \in 1 .. Len(Files)
    BY FilesAre DEF DeploymentTypeOK
  <2>4. CASE runner[r].file \in journal
    <3>1. runner'[r] = NextFile(r)
      BY <1>1, <2>4 DEF LookUp, DeploymentTypeOK
    <3>2. 1 .. runner[r].file \subseteq journal
      BY <2>3, <2>4, FilesAre DEF MigrationInv, RunnersKnow
    <3>3. /\ 1 .. runner'[r].file - 1 \subseteq journal
          /\ runner'[r].pc = "done" => Len(Files) \in journal
      <4>1. CASE NextFile(r).pc = "looking"
        BY <2>3, <3>1, <3>2, <4>1, NextFileIs
      <4>2. CASE NextFile(r).pc = "done"
        BY <2>3, <2>4, <3>1, <3>2, <4>2, NextFileIs, FilesAre
      <4> QED BY <4>1, <4>2, NextFileIs
    <3> QED BY <1>1, <2>1, <2>2, <3>3 DEF LookUp, MigrationInv, RunnersKnow
  <2>5. CASE runner[r].file \notin journal
    <3>1. runner'[r].file = runner[r].file /\ runner'[r].pc = "new"
      BY <1>1, <2>5 DEF LookUp, DeploymentTypeOK
    <3> QED BY <1>1, <2>1, <2>2, <3>1 DEF LookUp, MigrationInv, RunnersKnow
  <2> QED BY <2>4, <2>5
<1>2. ASSUME NEW r \in Runner, Migrate(r) PROVE MigrationInv'
  <2>1. CASE ApplyFile(r) /\ runner[r].file \notin journal
    BY <2>1, ApplyFileNext
  <2>2. CASE ApplyFails(r)
    BY <2>2 DEF ApplyFails, MigrationInv, MigratedWhole, RunnersKnow, DeploymentTypeOK
  <2> QED BY <1>2, <2>1, <2>2 DEF Migrate
<1>3. ASSUME NEW r \in Runner, RestartRunner(r) PROVE MigrationInv'
  BY <1>3 DEF RestartRunner, MigrationInv, MigratedWhole, RunnersKnow, DeploymentTypeOK
<1>4. ASSUME NEW s \in Seeder, SeedLookUp(s) \/ SeedInsert(s) PROVE MigrationInv'
  BY <1>4 DEF SeedLookUp, SeedInsert, MigrationInv, MigratedWhole, RunnersKnow
<1> QED BY <1>1, <1>2, <1>3, <1>4 DEF NextDeployment

\* There is one account, and whoever inserts it has seen the table, whose UNIQUE key
\* came with it.
SeedInv ==
    /\ \A s, t \in admins : s = t
    /\ \A s \in Seeder : seeder[s] = "hashing" => journal # {}

LEMMA SeedStep ==
    ASSUME DeploymentTypeOK, MigrationInv, SeedInv, NextDeployment
    PROVE  SeedInv'
<1>1. PICK n \in 0 .. Len(Files) : journal = 1 .. n /\ db = SchemaAfter[n]
  BY DEF MigrationInv, MigratedWhole
<1>2. ASSUME NEW s \in Seeder, SeedLookUp(s) PROVE SeedInv'
  <2>1. seeder'[s] = "hashing" => "users" \in DOMAIN db.tables
    BY <1>2 DEF SeedLookUp, DeploymentTypeOK
  <2>2. "users" \in DOMAIN db.tables => journal # {}
    <3>1. n = 0 => DOMAIN db.tables = {}
      BY <1>1, SchemaStep DEF EmptyDb, NoTables
    <3>2. n # 0 => 1 \in journal
      BY <1>1, FilesAre
    <3> QED BY <3>1, <3>2
  <2>3. \A o \in Seeder \ {s} : seeder'[o] = seeder[o]
    BY <1>2 DEF SeedLookUp, DeploymentTypeOK
  <2> QED BY <1>2, <2>1, <2>2, <2>3 DEF SeedLookUp, SeedInv
<1>3. ASSUME NEW s \in Seeder, SeedInsert(s) PROVE SeedInv'
  <2>1. n \in 1 .. Len(Files)
    BY <1>1, <1>3, FilesAre DEF SeedInsert, SeedInv
  <2>2. admins' = IF admins # {} THEN admins ELSE {s}
    BY <1>1, <1>3, <2>1, UsersKey DEF SeedInsert, SeedRow
  <2>3. \A o \in Seeder : seeder'[o] = "hashing" => seeder[o] = "hashing"
    BY <1>3 DEF SeedInsert, DeploymentTypeOK
  <2>4. journal' = journal
    BY <1>3 DEF SeedInsert
  <2> QED BY <2>2, <2>3, <2>4 DEF SeedInv
<1>4. ASSUME NEW r \in Runner, LookUp(r) \/ Migrate(r) \/ RestartRunner(r)
      PROVE  SeedInv'
  <2>1. journal \subseteq journal' /\ UNCHANGED <<admins, seeder>>
    BY <1>4 DEF LookUp, Migrate, ApplyFile, ApplyFails, RestartRunner
  <2> QED BY <2>1 DEF SeedInv
<1> QED BY <1>2, <1>3, <1>4 DEF NextDeployment

-----------------------------------------------------------------------------
(* The types of the sessions.                                              *)

ReqRecord ==
    [kind : {"none", "login", "page", "logout", "refresh"},
     pc : {"free", "comparing", "sent", "verified",
           "loggingOut", "leaving", "signing", "answered"},
     access : Pair \cup {NoPair}, refresh : Pair \cup {NoPair},
     pair : Pair \cup {NoPair}, at : 0 .. MaxTime,
     out : {"none", "cookies", "delete", "page", "loggedOut"}]

\* A step of one request changes that request's record.
LEMMA RecordStep ==
    ASSUME AuthTypeOK, NEW q \in Req, NEW r \in ReqRecord, req' = [req EXCEPT ![q] = r]
    PROVE  req' \in [Req -> ReqRecord]
BY DEF AuthTypeOK, ReqRecord

LEMMA IdleType == Idle \in ReqRecord
BY AuthBounds DEF Idle, ReqRecord

LEMMA AnswerType ==
    ASSUME AuthTypeOK, NEW q \in Req,
           NEW out \in {"none", "cookies", "delete", "page", "loggedOut"}, Answer(q, out)
    PROVE  req' \in [Req -> ReqRecord]
<1>1. req[q] \in ReqRecord
  BY DEF AuthTypeOK, ReqRecord
<1>2. [req[q] EXCEPT !.pc = "answered", !.out = out] \in ReqRecord
  BY <1>1 DEF ReqRecord
<1>3. req' = [req EXCEPT ![q] = [req[q] EXCEPT !.pc = "answered", !.out = out]]
  BY DEF Answer
<1> QED BY <1>2, <1>3, RecordStep

\* What a restart leaves of a request.
LEMMA DroppedIs ==
    ASSUME AuthTypeOK, NEW q \in Req
    PROVE  /\ Dropped(req[q]) \in ReqRecord
           /\ Dropped(req[q]) = req[q] \/ Dropped(req[q]).pc = "answered"
           /\ Dropped(req[q]).pc \notin {"comparing", "verified", "leaving", "signing"}
           /\ \A field \in {"kind", "access", "refresh", "pair", "at"} :
                 Dropped(req[q])[field] = req[q][field]
           /\ Dropped(req[q]).out \in {req[q].out, "delete", "none"}
<1>1. req[q] \in ReqRecord
  BY DEF AuthTypeOK, ReqRecord
<1>2. CASE req[q].pc \in {"comparing", "verified", "leaving", "signing"}
  BY <1>1, <1>2 DEF Dropped, ReqRecord
<1>3. CASE req[q].pc \notin {"comparing", "verified", "leaving", "signing"}
  BY <1>1, <1>3 DEF Dropped
<1> QED BY <1>2, <1>3

LEMMA MintType ==
    ASSUME AuthTypeOK, Mint
    PROVE  /\ born' \in Seq(0 .. MaxTime) /\ Len(born') \in Pair
           /\ Len(born') <= MaxPairs /\ Len(born') = Len(born) + 1
           /\ \A i \in DOMAIN born : i \in DOMAIN born' /\ born'[i] = born[i]
           /\ DOMAIN born' = DOMAIN born \cup {Len(born')}
           /\ born'[Len(born')] = now
<1>1. now \in 0 .. MaxTime /\ born \in Seq(0 .. MaxTime) /\ MaxPairs \in Nat
  BY AuthBounds DEF AuthTypeOK
<1>2. born' = Append(born, now) /\ Len(born) < MaxPairs
  BY DEF Mint
<1>3. Len(born) \in Nat
  BY <1>1
<1>4. /\ born' \in Seq(0 .. MaxTime) /\ Len(born') = Len(born) + 1
      /\ \A i \in 1 .. Len(born) : born'[i] = born[i]
      /\ born'[Len(born) + 1] = now
  BY <1>1, <1>2, AppendProperties
<1>5. DOMAIN born = 1 .. Len(born) /\ DOMAIN born' = 1 .. Len(born')
  BY <1>1, <1>4
<1> QED BY <1>1, <1>2, <1>3, <1>4, <1>5 DEF Pair

LEMMA BlacklistType ==
    ASSUME AuthTypeOK, NEW at, NEW bans \in SUBSET [token : Token, expires_at : Nat],
           Blacklist(at, bans)
    PROVE  blacklist' \subseteq [token : Token, expires_at : Nat]
BY DEF AuthTypeOK, Blacklist

\* What a request that is past a guard has shown it, and what it is.
PastGuard ==
    \A q \in Req :
        /\ req[q].pc # "answered" => req[q].out = "none"
        /\ req[q].pc \in {"verified", "leaving", "signing"} => Shown(q)[1] # NoPair
        /\ req[q].pc \in {"loggingOut", "leaving"} =>
              req[q].kind = "logout" /\ req[q].access # NoPair
        /\ req[q].pc = "signing" => req[q].kind = "refresh"

\* The pairs that are spoken of have been minted, and in the past.
Minted(p) == p \in DOMAIN born \/ p = NoPair

AllMinted ==
    /\ \A i \in DOMAIN born : born[i] <= now
    /\ \A name \in {"access", "refresh"} : Minted(jar[name].pair)
    /\ \A q \in Req :
          /\ Minted(req[q].access) /\ Minted(req[q].refresh) /\ Minted(req[q].pair)
          /\ req[q].at <= now
    /\ \A t \in ended : t[1] \in DOMAIN born

LEMMA PresentedType ==
    ASSUME AuthTypeOK, PastGuard, NEW q \in Req
    PROVE  /\ req[q].pc = "leaving" => Presented(q) \subseteq Token /\ Shown(q) \in Presented(q)
           /\ req[q].pc = "signing" => Shown(q) \in Token
           /\ req[q].pc = "leaving" =>
                 LogoutBans(q) \subseteq [token : Token, expires_at : Nat]
<1>1. req[q] \in ReqRecord
  BY DEF AuthTypeOK, ReqRecord
<1>2. ASSUME req[q].pc = "leaving"
      PROVE  Presented(q) \subseteq Token /\ Shown(q) \in Presented(q)
  BY <1>1, <1>2 DEF PastGuard, ReqRecord, Presented, Shown, Token
<1>3. ASSUME req[q].pc = "signing" PROVE Shown(q) \in Token
  BY <1>1, <1>3 DEF PastGuard, ReqRecord, Shown, Token
<1>4. ASSUME req[q].pc = "leaving"
      PROVE  LogoutBans(q) \subseteq [token : Token, expires_at : Nat]
  <2>1. now + AccessLife \in Nat /\ now + RefreshLife \in Nat
    BY AuthBounds DEF AuthTypeOK
  <2> QED BY <1>2, <1>4, <2>1 DEF LogoutBans, Ban
<1> QED BY <1>2, <1>3, <1>4

\* The token a request is past its guard with was signed, and expires one day.
LEMMA ShownBorn ==
    ASSUME AuthTypeOK, PastGuard, AllMinted, NEW q \in Req,
           req[q].pc \in {"verified", "leaving", "signing"}
    PROVE  Shown(q)[1] \in DOMAIN born /\ Exp(Shown(q)) \in Nat
<1>1. Shown(q)[1] \in DOMAIN born
  BY DEF PastGuard, AllMinted, Minted, Shown
<1>2. born[Shown(q)[1]] \in Nat
  <2>1. born \in Seq(0 .. MaxTime)
    BY DEF AuthTypeOK
  <2>2. born[Shown(q)[1]] \in 0 .. MaxTime
    BY <1>1, <2>1, LenProperties, ElementOfSeq
  <2> QED BY <2>2
<1> QED BY <1>1, <1>2, AuthBounds DEF Exp

\* Which records the steps of a request lead to.
LEMMA AuthTypeStep ==
    ASSUME AuthTypeOK, PastGuard, AllMinted, NEW known, NextAuth(known)
    PROVE  AuthTypeOK'
<1> USE AuthBounds DEF limit
<1>1. CASE Tick
  <2>1. jar' \in [{"access", "refresh"} -> [pair : Pair \cup {NoPair}, until : Nat]]
    BY <1>1 DEF Tick, AuthTypeOK, NoCookie
  <2> QED BY <1>1, <2>1 DEF Tick, AuthTypeOK
<1>2. ASSUME NEW q \in Req, Attempt(q) PROVE AuthTypeOK'
  <2>0. now \in Nat /\ now \in 0 .. MaxTime /\ bucket.count \in Nat /\ bucket.resetAt \in Nat
    BY DEF AuthTypeOK
  <2>1. bucket' \in [count : Nat, resetAt : Nat]
    <3>1. bucket \in [count : Nat, resetAt : Nat] /\ bucket' = CountedIn
      BY <1>2 DEF Attempt, AuthTypeOK
    <3>2. CountedIn \in [count : Nat, resetAt : Nat]
      BY <2>0, <3>1 DEF CountedIn
    <3> QED BY <3>1, <3>2
  <2>2. passes' \in Seq(0 .. MaxTime) /\ Len(passes') <= MaxLogins
    <3>1. passes \in Seq(0 .. MaxTime) /\ Len(passes) < MaxLogins
      BY <1>2 DEF Attempt, AuthTypeOK
    <3>2. passes' = passes \/ passes' = Append(passes, now)
      BY <1>2 DEF Attempt
    <3> QED BY <2>0, <3>1, <3>2, AppendProperties
  <2>3. req' \in [Req -> ReqRecord]
    <3>1. \A pc \in {"answered", "comparing"} :
            [Idle EXCEPT !.kind = "login", !.pc = pc] \in ReqRecord
      BY IdleType DEF ReqRecord
    <3> QED BY <1>2, <3>1, RecordStep DEF Attempt
  <2> QED BY <1>2, <2>1, <2>2, <2>3 DEF Attempt, AuthTypeOK, ReqRecord
<1>3. ASSUME NEW q \in Req, PasswordCompared(q) PROVE AuthTypeOK'
  <2>1. CASE Answer(q, "none") /\ UNCHANGED born
    <3>1. req' \in [Req -> ReqRecord]
      BY <2>1, AnswerType
    <3> QED BY <1>3, <2>1, <3>1 DEF PasswordCompared, AuthTypeOK, ReqRecord
  <2>2. CASE Mint /\ req' = [req EXCEPT ![q].pc = "answered", ![q].out = "cookies",
                                        ![q].pair = Len(born')]
    <3>1. req' = [req EXCEPT ![q] = [req[q] EXCEPT !.pc = "answered", !.out = "cookies",
                                                   !.pair = Len(born')]]
      BY <2>2
    <3>2. [req[q] EXCEPT !.pc = "answered", !.out = "cookies",
                         !.pair = Len(born')] \in ReqRecord
      <4>1. req[q] \in ReqRecord
        BY DEF AuthTypeOK, ReqRecord
      <4>2. Len(born') \in Pair
        BY <2>2, MintType
      <4> QED BY <4>1, <4>2 DEF ReqRecord
    <3>3. req' \in [Req -> ReqRecord]
      BY <3>1, <3>2, RecordStep
    <3> QED BY <1>3, <2>2, <3>3, MintType DEF PasswordCompared, AuthTypeOK, ReqRecord
  <2> QED BY <1>3, <2>1, <2>2 DEF PasswordCompared
<1>4. ASSUME NEW q \in Req, Ask(q) PROVE AuthTypeOK'
  <2>1. PICK kind \in {"page", "logout", "refresh"} :
          req' = [req EXCEPT ![q] =
              [Idle EXCEPT !.kind = kind, !.pc = "sent",
                           !.access = jar.access.pair, !.refresh = jar.refresh.pair]]
    BY <1>4 DEF Ask
  <2>2. [Idle EXCEPT !.kind = kind, !.pc = "sent", !.access = jar.access.pair,
                     !.refresh = jar.refresh.pair] \in ReqRecord
    <3>1. jar.access.pair \in Pair \cup {NoPair} /\ jar.refresh.pair \in Pair \cup {NoPair}
      BY DEF AuthTypeOK
    <3> QED BY <3>1, IdleType DEF ReqRecord
  <2>3. req' \in [Req -> ReqRecord]
    BY <2>1, <2>2, RecordStep
  <2> QED BY <1>4, <2>3 DEF Ask, AuthTypeOK, ReqRecord
<1>5. ASSUME NEW q \in Req, Verify(q) PROVE AuthTypeOK'
  <2>1. CASE Shown(q)[1] # NoPair /\ Fresh(Shown(q))
    <3>1. req' = [req EXCEPT ![q] =
              [req[q] EXCEPT !.pc = IF @ = "sent" THEN "verified" ELSE "leaving"]]
      BY <1>5, <2>1 DEF Verify
    <3>2. [req[q] EXCEPT !.pc = IF @ = "sent" THEN "verified" ELSE "leaving"] \in ReqRecord
      BY DEF AuthTypeOK, ReqRecord
    <3>3. req' \in [Req -> ReqRecord]
      BY <3>1, <3>2, RecordStep
    <3> QED BY <1>5, <3>3 DEF Verify, AuthTypeOK, ReqRecord
  <2>2. CASE Refused(q)
    <3>1. req' \in [Req -> ReqRecord]
      BY <2>2, AnswerType DEF Refused
    <3> QED BY <1>5, <3>1 DEF Verify, AuthTypeOK, ReqRecord
  <2> QED BY <1>5, <2>1, <2>2 DEF Verify
<1>6. ASSUME NEW q \in Req, Unreachable(q) PROVE AuthTypeOK'
  <2>1. req' \in [Req -> ReqRecord]
    BY <1>6, AnswerType DEF Unreachable
  <2> QED BY <1>6, <2>1 DEF Unreachable, AuthTypeOK, ReqRecord
<1>7. ASSUME NEW q \in Req, Check(q, known) PROVE AuthTypeOK'
  <2>1. CASE UNCHANGED born /\ (Refused(q) \/ Answer(q, "page"))
    <3>1. req' \in [Req -> ReqRecord]
      BY <2>1, AnswerType DEF Refused
    <3> QED BY <1>7, <2>1, <3>1 DEF Check, AuthTypeOK, ReqRecord
  <2>2. CASE UNCHANGED born /\ req' = [req EXCEPT ![q].pc = "loggingOut"]
    <3>1. req' = [req EXCEPT ![q] = [req[q] EXCEPT !.pc = "loggingOut"]]
      BY <2>2
    <3>2. [req[q] EXCEPT !.pc = "loggingOut"] \in ReqRecord
      BY DEF AuthTypeOK, ReqRecord
    <3>3. req' \in [Req -> ReqRecord]
      BY <3>1, <3>2, RecordStep
    <3> QED BY <1>7, <2>2, <3>3 DEF Check, AuthTypeOK, ReqRecord
  <2>3. CASE Mint /\ req' = [req EXCEPT ![q].pc = "signing", ![q].at = now,
                                        ![q].pair = Len(born')]
    <3>1. req' = [req EXCEPT ![q] = [req[q] EXCEPT !.pc = "signing", !.at = now,
                                                   !.pair = Len(born')]]
      BY <2>3
    <3>2. [req[q] EXCEPT !.pc = "signing", !.at = now, !.pair = Len(born')] \in ReqRecord
      <4>1. req[q] \in ReqRecord /\ now \in 0 .. MaxTime
        BY DEF AuthTypeOK, ReqRecord
      <4>2. Len(born') \in Pair
        BY <2>3, MintType
      <4> QED BY <4>1, <4>2 DEF ReqRecord
    <3>3. req' \in [Req -> ReqRecord]
      BY <3>1, <3>2, RecordStep
    <3> QED BY <1>7, <2>3, <3>3, MintType DEF Check, AuthTypeOK, ReqRecord
  <2> QED BY <1>7, <2>1, <2>2, <2>3 DEF Check
<1>8. ASSUME NEW q \in Req, Logout(q) PROVE AuthTypeOK'
  <2>1. CASE Refused(q) /\ UNCHANGED <<blacklist, ended>>
    <3>1. req' \in [Req -> ReqRecord]
      BY <2>1, AnswerType DEF Refused
    <3> QED BY <1>8, <2>1, <3>1 DEF Logout, AuthTypeOK, ReqRecord
  <2>2. CASE ~ Banned(Shown(q))
    <3>1. req' \in [Req -> ReqRecord]
      BY <1>8, <2>2, AnswerType DEF Logout
    <3>2. req[q].pc = "leaving"
      BY <1>8 DEF Logout
    <3>3. blacklist' \subseteq [token : Token, expires_at : Nat]
      BY <1>8, <2>2, <3>2, PresentedType, BlacklistType DEF Logout
    <3>4. ended' \subseteq Token
      BY <1>8, <2>2, <3>2, PresentedType DEF Logout, AuthTypeOK
    <3> QED BY <1>8, <3>1, <3>3, <3>4 DEF Logout, AuthTypeOK, ReqRecord
  <2> QED BY <1>8, <2>1, <2>2 DEF Logout
<1>9. ASSUME NEW q \in Req, Rotate(q) PROVE AuthTypeOK'
  <2>1. req' \in [Req -> ReqRecord]
    BY <1>9, AnswerType DEF Rotate
  <2>2. Shown(q) \in Token
    BY <1>9, PresentedType DEF Rotate
  <2>3. Exp(Shown(q)) \in Nat
    BY <1>9, <2>2, ShownBorn DEF Rotate
  <2>4. blacklist' \subseteq [token : Token, expires_at : Nat]
    <3>1. {Ban(Shown(q), Exp(Shown(q)))} \subseteq [token : Token, expires_at : Nat]
      BY <2>2, <2>3 DEF Ban
    <3> QED BY <1>9, <3>1, BlacklistType DEF Rotate
  <2>5. ended' \subseteq Token
    BY <1>9, <2>2 DEF Rotate, AuthTypeOK
  <2> QED BY <1>9, <2>1, <2>4, <2>5 DEF Rotate, AuthTypeOK, ReqRecord
<1>10. ASSUME NEW q \in Req, Deliver(q) PROVE AuthTypeOK'
  <2>1. req' \in [Req -> ReqRecord]
    BY <1>10, IdleType, RecordStep DEF Deliver
  <2>2. jar' \in [{"access", "refresh"} -> [pair : Pair \cup {NoPair}, until : Nat]]
    <3>1. NoCookies \in [{"access", "refresh"} -> [pair : Pair \cup {NoPair}, until : Nat]]
      BY DEF NoCookies, NoCookie
    <3>2. Cookies(req[q].pair) \in
            [{"access", "refresh"} -> [pair : Pair \cup {NoPair}, until : Nat]]
      BY DEF Cookies, AuthTypeOK
    <3>3. jar' \in {NoCookies, Cookies(req[q].pair), jar}
      BY <1>10 DEF Deliver, AuthTypeOK
    <3> QED BY <3>1, <3>2, <3>3 DEF AuthTypeOK
  <2> QED BY <1>10, <2>1, <2>2 DEF Deliver, AuthTypeOK, ReqRecord
<1>11. ASSUME NEW q \in Req, Lose(q) PROVE AuthTypeOK'
  <2>1. req' \in [Req -> ReqRecord]
    BY <1>11, IdleType, RecordStep DEF Lose
  <2> QED BY <1>11, <2>1 DEF Lose, AuthTypeOK, ReqRecord
<1>12. CASE RestartApi
  <2>1. req' \in [Req -> ReqRecord]
    BY <1>12, DroppedIs DEF RestartApi
  <2>2. bucket' \in [count : Nat, resetAt : Nat] /\ restarts' \in 0 .. MaxRestarts
    BY <1>12 DEF RestartApi, NoBucket, AuthTypeOK
  <2>3. passes' \in Seq(0 .. MaxTime) /\ Len(passes') <= MaxLogins
    BY <1>12 DEF RestartApi
  <2> QED BY <1>12, <2>1, <2>2, <2>3 DEF RestartApi, AuthTypeOK, ReqRecord
<1> QED
  BY <1>1, <1>2, <1>3, <1>4, <1>5, <1>6, <1>7, <1>8, <1>9, <1>10, <1>11, <1>12 DEF NextAuth

-----------------------------------------------------------------------------
(* What was given up stays given up.                                       *)

\* No row is older than its token.
RowsLast ==
    \A row \in blacklist :
        row.token[1] \in DOMAIN born /\ row.expires_at >= Exp(row.token)

SessionInv == PastGuard /\ AllMinted /\ RowsLast /\ EndedStaysBanned

LEMMA ExpNat ==
    ASSUME AuthTypeOK, NEW t \in Token, t[1] \in DOMAIN born
    PROVE  Exp(t) \in Nat /\ now \in Nat
<1>1. born \in Seq(0 .. MaxTime) /\ now \in 0 .. MaxTime
  BY DEF AuthTypeOK
<1>2. born[t[1]] \in 0 .. MaxTime
  BY <1>1, LenProperties, ElementOfSeq
<1> QED BY <1>1, <1>2, AuthBounds DEF Exp

\* A step that neither lists nor gives up a token.
LEMMA TokensKept ==
    ASSUME AuthTypeOK, SessionInv, UNCHANGED <<blacklist, ended>>,
           \/ now' = now /\ (UNCHANGED born \/ Mint)
           \/ now' = now + 1 /\ UNCHANGED born
    PROVE  /\ RowsLast' /\ EndedStaysBanned'
           /\ \A i \in DOMAIN born' : born'[i] <= now'
           /\ \A t \in ended' : t[1] \in DOMAIN born'
           /\ \A n \in DOMAIN born : n \in DOMAIN born'
<1>1. /\ \A n \in DOMAIN born : n \in DOMAIN born' /\ born'[n] = born[n]
      /\ \A n \in DOMAIN born' : n \in DOMAIN born \/ (born'[n] = now /\ now' = now)
  BY MintType
<1>2. now \in Nat /\ now <= now' /\ now' \in Nat
  BY DEF AuthTypeOK
<1>3. \A t \in Token : t[1] \in DOMAIN born => Exp(t)' = Exp(t)
  BY <1>1 DEF Exp
<1>4. ended \subseteq Token /\ \A row \in blacklist : row.token \in Token
  BY DEF AuthTypeOK
<1>5. RowsLast'
  BY <1>1, <1>3, <1>4 DEF SessionInv, RowsLast
<1>6. EndedStaysBanned'
  <2> SUFFICES ASSUME NEW t \in ended PROVE Banned(t)' \/ now' >= Exp(t)'
    BY DEF EndedStaysBanned
  <2>1. t \in Token /\ t[1] \in DOMAIN born
    BY <1>4 DEF SessionInv, AllMinted
  <2>2. Exp(t)' = Exp(t) /\ Exp(t) \in Nat
    BY <2>1, <1>3, ExpNat
  <2>3. Banned(t) \/ now >= Exp(t)
    BY DEF SessionInv, EndedStaysBanned
  <2> QED BY <2>2, <2>3, <1>2 DEF Banned
<1>7. \A i \in DOMAIN born' : born'[i] <= now'
  <2> SUFFICES ASSUME NEW i \in DOMAIN born' PROVE born'[i] <= now'
    OBVIOUS
  <2>1. CASE i \in DOMAIN born
    <3>1. born[i] <= now /\ born'[i] = born[i]
      BY <1>1, <2>1 DEF SessionInv, AllMinted
    <3>2. born[i] \in 0 .. MaxTime
      <4>1. born \in Seq(0 .. MaxTime)
        BY DEF AuthTypeOK
      <4> QED BY <2>1, <4>1, LenProperties, ElementOfSeq
    <3> QED BY <3>1, <3>2, <1>2, AuthBounds
  <2>2. CASE i \notin DOMAIN born
    BY <1>1, <1>2, <2>2
  <2> QED BY <2>1, <2>2
<1>8. \A t \in ended' : t[1] \in DOMAIN born'
  BY <1>1 DEF SessionInv, AllMinted
<1> QED BY <1>1, <1>5, <1>6, <1>7, <1>8

\* One transaction of a logout or a refresh.
LEMMA TokensGivenUp ==
    ASSUME AuthTypeOK, SessionInv, NEW at \in Nat, at <= now,
           NEW bans \in SUBSET [token : Token, expires_at : Nat],
           \A b \in bans : b.token[1] \in DOMAIN born /\ b.expires_at >= Exp(b.token),
           Blacklist(at, bans), UNCHANGED <<now, born>>,
           ended' = ended \cup {b.token : b \in bans}
    PROVE  RowsLast' /\ EndedStaysBanned' /\ \A t \in ended' : t[1] \in DOMAIN born'
<1> DEFINE kept == {row \in blacklist : row.expires_at >= at}
<1>1. blacklist' = kept \cup {b \in bans : \A row \in kept : row.token # b.token}
  BY DEF Blacklist
<1>2. \A t : Exp(t)' = Exp(t)
  BY DEF Exp
<1>3. RowsLast'
  BY <1>1, <1>2 DEF SessionInv, RowsLast
<1>4. ASSUME NEW t \in ended PROVE Banned(t)' \/ now' >= Exp(t)'
  <2>1. CASE now >= Exp(t)
    BY <1>2, <2>1
  <2>2. CASE Banned(t)
    <3>1. PICK row \in blacklist : row.token = t
      BY <2>2 DEF Banned
    <3>2. CASE row \in kept
      BY <1>1, <3>1, <3>2 DEF Banned
    <3>3. CASE row \notin kept
      <4>1. t \in Token /\ t[1] \in DOMAIN born /\ row.expires_at \in Nat
        BY DEF AuthTypeOK, SessionInv, AllMinted
      <4>2. Exp(t) \in Nat /\ now \in Nat
        BY <4>1, ExpNat
      <4>3. row.expires_at >= Exp(t) /\ row.expires_at < at
        BY <3>1, <3>3, <4>1 DEF SessionInv, RowsLast
      <4> QED BY <1>2, <4>1, <4>2, <4>3
    <3> QED BY <3>2, <3>3
  <2> QED BY <2>1, <2>2 DEF SessionInv, EndedStaysBanned
<1>5. ASSUME NEW b \in bans PROVE Banned(b.token)'
  BY <1>1 DEF Banned
<1>6. EndedStaysBanned'
  BY <1>4, <1>5 DEF EndedStaysBanned
<1>7. \A t \in ended' : t[1] \in DOMAIN born'
  BY DEF SessionInv, AllMinted
<1> QED BY <1>3, <1>6, <1>7

\* What remains of the invariant after a step of one request.
LEMMA RecordKept ==
    ASSUME AuthTypeOK, SessionInv, NEW q \in Req, NEW r \in ReqRecord,
           req' = [req EXCEPT ![q] = r],
           now' = now, \A n \in DOMAIN born : n \in DOMAIN born',
           \A name \in {"access", "refresh"} :
               jar'[name].pair \in DOMAIN born' \cup {NoPair},
           r.access \in DOMAIN born' \cup {NoPair},
           r.refresh \in DOMAIN born' \cup {NoPair},
           r.pair \in DOMAIN born' \cup {NoPair}, r.at <= now,
           r.pc # "answered" => r.out = "none",
           r.pc \in {"verified", "leaving", "signing"} =>
               /\ r.kind = "refresh" => r.refresh # NoPair
               /\ r.kind # "refresh" => r.access # NoPair,
           r.pc \in {"loggingOut", "leaving"} => r.kind = "logout" /\ r.access # NoPair,
           r.pc = "signing" => r.kind = "refresh",
           RowsLast', EndedStaysBanned',
           \A i \in DOMAIN born' : born'[i] <= now',
           \A t \in ended' : t[1] \in DOMAIN born'
    PROVE  SessionInv'
<1>1. /\ req'[q] = r
      /\ \A o \in Req \ {q} : req'[o] = req[o]
  BY DEF AuthTypeOK
<1>2. PastGuard'
  BY <1>1 DEF PastGuard, SessionInv, Shown
<1>3. AllMinted'
  BY <1>1 DEF AllMinted, SessionInv, Minted
<1> QED BY <1>2, <1>3 DEF SessionInv

\* A step that changes one request and the cookies at most.
LEMMA SessionStep ==
    ASSUME AuthTypeOK, SessionInv, NEW known, NextAuth(known)
    PROVE  SessionInv'
<1>1. \A name \in {"access", "refresh"} : jar[name].pair \in DOMAIN born \cup {NoPair}
  BY DEF SessionInv, AllMinted, Minted
<1>2. \A o \in Req : /\ req[o].access \in DOMAIN born \cup {NoPair}
                     /\ req[o].refresh \in DOMAIN born \cup {NoPair}
                     /\ req[o].pair \in DOMAIN born \cup {NoPair}
                     /\ req[o].at <= now /\ req[o] \in ReqRecord
  BY DEF SessionInv, AllMinted, Minted, AuthTypeOK, ReqRecord
<1>3. now \in Nat /\ 0 <= now /\ now <= now
  BY DEF AuthTypeOK
<1>4. ASSUME UNCHANGED <<now, born, blacklist, ended>>
      PROVE  /\ RowsLast' /\ EndedStaysBanned'
             /\ \A i \in DOMAIN born' : born'[i] <= now'
             /\ \A t \in ended' : t[1] \in DOMAIN born'
  BY <1>4, TokensKept
<1>5. ASSUME UNCHANGED <<now, blacklist, ended>>, Mint
      PROVE  /\ RowsLast' /\ EndedStaysBanned'
             /\ \A i \in DOMAIN born' : born'[i] <= now'
             /\ \A t \in ended' : t[1] \in DOMAIN born'
             /\ \A n \in DOMAIN born : n \in DOMAIN born'
             /\ Len(born') \in DOMAIN born' /\ Len(born') \in Pair
  BY <1>5, TokensKept, MintType
<1>5a. ASSUME NEW q \in Req,
              NEW out \in {"none", "cookies", "delete", "page", "loggedOut"},
              Answer(q, out), UNCHANGED <<now, born, jar>>,
              RowsLast', EndedStaysBanned', \A t \in ended' : t[1] \in DOMAIN born'
       PROVE  SessionInv'
  <2> DEFINE r == [req[q] EXCEPT !.pc = "answered", !.out = out]
  <2>1. /\ r \in ReqRecord /\ r.pc = "answered" /\ r.access = req[q].access
        /\ r.refresh = req[q].refresh /\ r.pair = req[q].pair /\ r.at = req[q].at
    BY <1>2 DEF ReqRecord
  <2>2. req' = [req EXCEPT ![q] = r]
    BY <1>5a DEF Answer
  <2>3. \A i \in DOMAIN born' : born'[i] <= now'
    BY <1>5a DEF SessionInv, AllMinted
  <2> HIDE DEF r
  <2> QED BY <1>1, <1>2, <1>5a, <2>1, <2>2, <2>3, RecordKept
<1>6. ASSUME NEW q \in Req,
             NEW out \in {"none", "cookies", "delete", "page", "loggedOut"},
             Answer(q, out), UNCHANGED <<now, born, blacklist, ended, jar>>
      PROVE  SessionInv'
  BY <1>4, <1>5a, <1>6
<1>7. ASSUME NEW q \in Req, req' = [req EXCEPT ![q] = Idle],
             UNCHANGED <<now, born, blacklist, ended>>,
             \A name \in {"access", "refresh"} :
                 jar'[name].pair \in DOMAIN born' \cup {NoPair}
      PROVE  SessionInv'
  <2>1. /\ Idle.pc = "free" /\ Idle.access = NoPair /\ Idle.refresh = NoPair
        /\ Idle.pair = NoPair /\ Idle.at = 0 /\ Idle.out = "none"
    BY DEF Idle
  <2> QED BY <1>3, <1>4, <1>7, <2>1, IdleType, RecordKept
<1>8. CASE Tick
  <2>1. /\ now' = now + 1 /\ UNCHANGED <<born, blacklist, ended, req>>
        /\ \A name \in {"access", "refresh"} : jar'[name] \in {jar[name], NoCookie}
    BY <1>8 DEF Tick, AuthTypeOK
  <2>2. /\ RowsLast' /\ EndedStaysBanned'
        /\ \A i \in DOMAIN born' : born'[i] <= now'
        /\ \A t \in ended' : t[1] \in DOMAIN born'
    BY <2>1, TokensKept
  <2>3. PastGuard'
    BY <2>1 DEF SessionInv, PastGuard, Shown
  <2>4. \A name \in {"access", "refresh"} : Minted(jar[name].pair)'
    BY <1>1, <2>1 DEF Minted, NoCookie
  <2>5. \A o \in Req : /\ Minted(req[o].access)' /\ Minted(req[o].refresh)'
                       /\ Minted(req[o].pair)' /\ req'[o].at <= now'
    BY <1>2, <1>3, <2>1 DEF Minted, ReqRecord
  <2> QED BY <2>2, <2>3, <2>4, <2>5 DEF SessionInv, AllMinted
<1>9. ASSUME NEW q \in Req, Attempt(q) PROVE SessionInv'
  <2>1. PICK pc \in {"answered", "comparing"} :
          req' = [req EXCEPT ![q] = [Idle EXCEPT !.kind = "login", !.pc = pc]]
    BY <1>9 DEF Attempt
  <2> DEFINE r == [Idle EXCEPT !.kind = "login", !.pc = pc]
  <2>2. r \in ReqRecord /\ r.pc = pc
    BY IdleType DEF ReqRecord
  <2>3. /\ r.access = NoPair /\ r.refresh = NoPair /\ r.pair = NoPair /\ r.at = 0
        /\ r.out = "none"
    BY DEF Idle
  <2>4. UNCHANGED <<now, born, blacklist, ended, jar>>
    BY <1>9 DEF Attempt
  <2> HIDE DEF r
  <2> QED BY <1>1, <1>3, <1>4, <2>1, <2>2, <2>3, <2>4, RecordKept DEF r
<1>10. ASSUME NEW q \in Req, PasswordCompared(q) PROVE SessionInv'
  <2>1. CASE Answer(q, "none") /\ UNCHANGED born
    BY <1>6, <1>10, <2>1 DEF PasswordCompared
  <2>2. CASE Mint /\ req' = [req EXCEPT ![q].pc = "answered", ![q].out = "cookies",
                                        ![q].pair = Len(born')]
    <3> DEFINE r == [req[q] EXCEPT !.pc = "answered", !.out = "cookies",
                                   !.pair = Len(born')]
    <3>1. UNCHANGED <<now, blacklist, ended, jar>>
      BY <1>10 DEF PasswordCompared
    <3>2. /\ r \in ReqRecord /\ r.pc = "answered" /\ r.access = req[q].access
          /\ r.refresh = req[q].refresh /\ r.pair = Len(born') /\ r.at = req[q].at
      BY <1>2, <1>5, <2>2, <3>1 DEF ReqRecord
    <3>3. req' = [req EXCEPT ![q] = r]
      BY <2>2
    <3>4. /\ \A name \in {"access", "refresh"} :
               jar'[name].pair \in DOMAIN born' \cup {NoPair}
          /\ r.access \in DOMAIN born' \cup {NoPair}
          /\ r.refresh \in DOMAIN born' \cup {NoPair} /\ r.at <= now
          /\ r.pair \in DOMAIN born' \cup {NoPair}
      BY <1>1, <1>2, <1>5, <2>2, <3>1, <3>2
    <3> HIDE DEF r
    <3> QED BY <1>5, <2>2, <3>1, <3>2, <3>3, <3>4, RecordKept
  <2> QED BY <1>10, <2>1, <2>2 DEF PasswordCompared
<1>11. ASSUME NEW q \in Req, Ask(q) PROVE SessionInv'
  <2>1. PICK kind \in {"page", "logout", "refresh"} :
          req' = [req EXCEPT ![q] =
              [Idle EXCEPT !.kind = kind, !.pc = "sent",
                           !.access = jar.access.pair, !.refresh = jar.refresh.pair]]
    BY <1>11 DEF Ask
  <2> DEFINE r == [Idle EXCEPT !.kind = kind, !.pc = "sent",
                               !.access = jar.access.pair, !.refresh = jar.refresh.pair]
  <2>2. r \in ReqRecord /\ r.pc = "sent"
    <3>1. jar.access.pair \in Pair \cup {NoPair} /\ jar.refresh.pair \in Pair \cup {NoPair}
      BY DEF AuthTypeOK
    <3> QED BY <3>1, IdleType DEF ReqRecord
  <2>3. r.access = jar["access"].pair /\ r.refresh = jar["refresh"].pair
        /\ r.pair = NoPair /\ r.at = 0 /\ r.out = "none"
    BY DEF Idle
  <2>4. UNCHANGED <<now, born, blacklist, ended, jar>>
    BY <1>11 DEF Ask
  <2>5. req' = [req EXCEPT ![q] = r]
    BY <2>1
  <2> HIDE DEF r
  <2> QED BY <1>1, <1>3, <1>4, <2>2, <2>3, <2>4, <2>5, RecordKept
<1>12. ASSUME NEW q \in Req, Verify(q) PROVE SessionInv'
  <2>1. UNCHANGED <<now, born, blacklist, ended, jar>>
    BY <1>12 DEF Verify
  <2>2. CASE Refused(q)
    BY <1>6, <2>1, <2>2 DEF Refused
  <2>3. CASE Shown(q)[1] # NoPair /\ Fresh(Shown(q))
    <3> DEFINE r == [req[q] EXCEPT !.pc = IF @ = "sent" THEN "verified" ELSE "leaving"]
    <3>1. req' = [req EXCEPT ![q] = r]
      BY <1>12, <2>3 DEF Verify
    <3>2. /\ r \in ReqRecord /\ r.access = req[q].access /\ r.refresh = req[q].refresh
          /\ r.pair = req[q].pair
          /\ r.at = req[q].at /\ r.kind = req[q].kind /\ r.out = req[q].out
          /\ r.pc = IF req[q].pc = "sent" THEN "verified" ELSE "leaving"
      BY <1>2 DEF ReqRecord
    <3>3. req[q].pc \in {"sent", "loggingOut"}
      BY <1>12 DEF Verify
    <3>4. req[q].out = "none"
      BY <3>3 DEF SessionInv, PastGuard
    <3>5. /\ req[q].kind = "refresh" => req[q].refresh # NoPair
          /\ req[q].kind # "refresh" => req[q].access # NoPair
      BY <2>3 DEF Shown
    <3>6. req[q].pc # "sent" => req[q].kind = "logout" /\ req[q].access # NoPair
      BY <3>3 DEF SessionInv, PastGuard
    <3> HIDE DEF r
    <3> QED BY <1>1, <1>2, <1>4, <2>1, <3>1, <3>2, <3>4, <3>5, <3>6, RecordKept
  <2> QED BY <1>12, <2>2, <2>3 DEF Verify
<1>13. ASSUME NEW q \in Req, Unreachable(q) PROVE SessionInv'
  BY <1>6, <1>13 DEF Unreachable
<1>14. ASSUME NEW q \in Req, Check(q, known) PROVE SessionInv'
  <2>1. /\ UNCHANGED <<now, blacklist, ended, jar>> /\ req[q].pc = "verified"
        /\ Shown(q)[1] # NoPair /\ req[q].out = "none"
    BY <1>14 DEF Check, SessionInv, PastGuard
  <2>2. /\ req[q].kind = "refresh" => req[q].refresh # NoPair
        /\ req[q].kind # "refresh" => req[q].access # NoPair
    BY <2>1 DEF Shown
  <2>3. CASE UNCHANGED born /\ (Refused(q) \/ Answer(q, "page"))
    BY <1>6, <2>1, <2>3 DEF Refused
  <2>4. CASE /\ req[q].kind = "logout" /\ UNCHANGED born
             /\ req' = [req EXCEPT ![q].pc = "loggingOut"]
    <3> DEFINE r == [req[q] EXCEPT !.pc = "loggingOut"]
    <3>1. req' = [req EXCEPT ![q] = r]
      BY <2>4
    <3>2. /\ r \in ReqRecord /\ r.access = req[q].access /\ r.refresh = req[q].refresh
          /\ r.pair = req[q].pair
          /\ r.at = req[q].at /\ r.kind = req[q].kind /\ r.out = req[q].out
          /\ r.pc = "loggingOut"
      BY <1>2 DEF ReqRecord
    <3>3. r.kind = "logout" /\ r.access # NoPair /\ r.out = "none"
      BY <2>1, <2>2, <2>4, <3>2
    <3>4. r.access \in DOMAIN born' \cup {NoPair} /\ r.refresh \in DOMAIN born' \cup {NoPair}
          /\ r.pair \in DOMAIN born' \cup {NoPair} /\ r.at <= now
      BY <1>2, <2>4, <3>2
    <3>5. UNCHANGED <<now, born, blacklist, ended, jar>>
      BY <2>1, <2>4
    <3> HIDE DEF r
    <3> QED BY <1>1, <1>4, <3>1, <3>2, <3>3, <3>4, <3>5, RecordKept
  <2>5. CASE /\ req[q].kind = "refresh" /\ Mint
             /\ req' = [req EXCEPT ![q].pc = "signing", ![q].at = now,
                                   ![q].pair = Len(born')]
    <3> DEFINE r == [req[q] EXCEPT !.pc = "signing", !.at = now, !.pair = Len(born')]
    <3>1. req' = [req EXCEPT ![q] = r]
      BY <2>5
    <3>2. Len(born') \in Pair /\ now \in 0 .. MaxTime
      BY <1>5, <2>1, <2>5 DEF AuthTypeOK
    <3>3. /\ r \in ReqRecord /\ r.access = req[q].access /\ r.refresh = req[q].refresh
          /\ r.pair = Len(born')
          /\ r.at = now /\ r.kind = req[q].kind /\ r.out = req[q].out
          /\ r.pc = "signing"
      BY <1>2, <3>2 DEF ReqRecord
    <3>4. /\ \A name \in {"access", "refresh"} :
               jar'[name].pair \in DOMAIN born' \cup {NoPair}
          /\ r.access \in DOMAIN born' \cup {NoPair}
          /\ r.refresh \in DOMAIN born' \cup {NoPair} /\ r.at <= now
          /\ r.pair \in DOMAIN born' \cup {NoPair}
      BY <1>1, <1>2, <1>3, <1>5, <2>1, <2>5, <3>3
    <3>5. r.kind = "refresh" /\ r.refresh # NoPair /\ r.out = "none"
      BY <2>1, <2>2, <2>5, <3>3
    <3> HIDE DEF r
    <3> QED BY <1>5, <2>1, <2>5, <3>1, <3>3, <3>4, <3>5, RecordKept
  <2> QED BY <1>14, <2>3, <2>4, <2>5 DEF Check
<1>15. ASSUME NEW q \in Req, Logout(q) PROVE SessionInv'
  <2>1. UNCHANGED <<now, born, jar>> /\ req[q].pc = "leaving"
    BY <1>15 DEF Logout
  <2>2. CASE Refused(q) /\ UNCHANGED <<blacklist, ended>>
    BY <1>6, <2>1, <2>2 DEF Refused
  <2>3. CASE /\ Blacklist(now, LogoutBans(q)) /\ ended' = ended \cup Presented(q)
             /\ Answer(q, "loggedOut")
    <3>1. \A t \in Presented(q) : t \in Token /\ t[1] \in DOMAIN born
      <4>1. req[q].access # NoPair
        BY <2>1 DEF SessionInv, PastGuard
      <4> QED BY <1>2, <2>1, <4>1, PresentedType DEF Presented, SessionInv
    <3>2. \A b \in LogoutBans(q) : b.token[1] \in DOMAIN born /\ b.expires_at >= Exp(b.token)
      <4> SUFFICES ASSUME NEW t \in Presented(q)
                   PROVE  now + (IF t[2] = "access" THEN AccessLife ELSE RefreshLife) >= Exp(t)
        BY <3>1 DEF LogoutBans, Ban
      <4>1. born[t[1]] <= now
        BY <3>1 DEF SessionInv, AllMinted
      <4>2. born[t[1]] \in Nat
        <5>1. born \in Seq(0 .. MaxTime)
          BY DEF AuthTypeOK
        <5>2. born[t[1]] \in 0 .. MaxTime
          BY <3>1, <5>1, LenProperties, ElementOfSeq
        <5> QED BY <5>2
      <4> QED BY <1>3, <4>1, <4>2, AuthBounds DEF Exp
    <3>3. Presented(q) = {b.token : b \in LogoutBans(q)}
      <4>1. \A b \in LogoutBans(q) : b.token \in Presented(q)
        BY DEF LogoutBans, Ban
      <4>2. ASSUME NEW t \in Presented(q) PROVE \E b \in LogoutBans(q) : t = b.token
        <5> DEFINE b == Ban(t, now + (IF t[2] = "access" THEN AccessLife ELSE RefreshLife))
        <5>1. b \in LogoutBans(q)
          BY Zenon DEF LogoutBans
        <5>2. b.token = t
          BY DEF Ban
        <5> QED BY <5>1, <5>2
      <4> QED BY <4>1, <4>2
    <3>4. LogoutBans(q) \in SUBSET [token : Token, expires_at : Nat]
      BY <2>1, PresentedType DEF SessionInv
    <3>5. RowsLast' /\ EndedStaysBanned' /\ \A t \in ended' : t[1] \in DOMAIN born'
      BY <1>3, <2>1, <2>3, <3>2, <3>3, <3>4, TokensGivenUp
    <3> QED BY <1>5a, <2>1, <2>3, <3>5
  <2> QED BY <1>15, <2>2, <2>3 DEF Logout
<1>16. ASSUME NEW q \in Req, Rotate(q) PROVE SessionInv'
  <2>1. /\ UNCHANGED <<now, born, jar>> /\ req[q].pc = "signing"
        /\ Blacklist(req[q].at, {Ban(Shown(q), Exp(Shown(q)))})
        /\ ended' = ended \cup {Shown(q)} /\ Answer(q, "cookies")
    BY <1>16 DEF Rotate
  <2>2. Shown(q) \in Token /\ Shown(q)[1] \in DOMAIN born /\ Exp(Shown(q)) \in Nat
    BY <2>1, PresentedType, ShownBorn DEF SessionInv
  <2>3. req[q].at \in Nat
    BY <1>2 DEF ReqRecord
  <2> DEFINE bans == {Ban(Shown(q), Exp(Shown(q)))}
  <2>4. /\ bans \in SUBSET [token : Token, expires_at : Nat]
        /\ \A b \in bans : b.token = Shown(q) /\ b.expires_at = Exp(Shown(q))
    BY <2>2 DEF Ban
  <2>5. ended' = ended \cup {b.token : b \in bans}
    BY <2>1 DEF Ban
  <2>6. /\ \A b \in bans : b.token[1] \in DOMAIN born /\ b.expires_at >= Exp(b.token)
        /\ Blacklist(req[q].at, bans)
    BY <2>1, <2>2, <2>4
  <2> HIDE DEF bans
  <2>7. RowsLast' /\ EndedStaysBanned' /\ \A t \in ended' : t[1] \in DOMAIN born'
    BY <1>2, <2>1, <2>3, <2>4, <2>5, <2>6, TokensGivenUp
  <2> QED BY <1>5a, <2>1, <2>7
<1>17. ASSUME NEW q \in Req, Deliver(q) PROVE SessionInv'
  <2>1. jar' = NoCookies \/ jar' = Cookies(req[q].pair) \/ jar' = jar
    BY <1>17 DEF Deliver
  <2>2. /\ req' = [req EXCEPT ![q] = Idle]
        /\ UNCHANGED <<now, born, blacklist, ended>>
    BY <1>17 DEF Deliver
  <2>3. \A name \in {"access", "refresh"} : jar'[name].pair \in DOMAIN born' \cup {NoPair}
    BY <1>1, <1>2, <2>1, <2>2 DEF NoCookies, NoCookie, Cookies
  <2> QED BY <1>7, <2>2, <2>3
<1>18. ASSUME NEW q \in Req, Lose(q) PROVE SessionInv'
  BY <1>1, <1>7, <1>18 DEF Lose
<1>19. CASE RestartApi
  <2>1. /\ UNCHANGED <<now, born, blacklist, ended, jar>>
        /\ \A o \in Req : req'[o] = Dropped(req[o])
    BY <1>19 DEF RestartApi
  <2>2. /\ RowsLast' /\ EndedStaysBanned'
        /\ \A i \in DOMAIN born' : born'[i] <= now'
        /\ \A t \in ended' : t[1] \in DOMAIN born'
    BY <1>4, <2>1
  <2>3. \A o \in Req : /\ req'[o] = req[o] \/ req'[o].pc = "answered"
                       /\ req'[o].pc \notin {"verified", "leaving", "signing"}
                       /\ req'[o].access = req[o].access /\ req'[o].refresh = req[o].refresh
                       /\ req'[o].pair = req[o].pair /\ req'[o].at = req[o].at
    <3> TAKE o \in Req
    <3>1. \A field \in {"kind", "access", "refresh", "pair", "at"} :
             Dropped(req[o])[field] = req[o][field]
      BY DroppedIs
    <3>2. /\ Dropped(req[o]).access = req[o].access
          /\ Dropped(req[o]).refresh = req[o].refresh
          /\ Dropped(req[o]).pair = req[o].pair /\ Dropped(req[o]).at = req[o].at
      BY <3>1
    <3> QED BY <2>1, <3>2, DroppedIs
  <2>4. PastGuard'
    BY <2>3 DEF SessionInv, PastGuard
  <2>5. AllMinted'
    BY <2>1, <2>2, <2>3 DEF SessionInv, AllMinted, Minted
  <2> QED BY <2>2, <2>4, <2>5 DEF SessionInv
<1> QED
  BY <1>8, <1>9, <1>10, <1>11, <1>12, <1>13, <1>14, <1>15, <1>16, <1>17, <1>18, <1>19
  DEF NextAuth

-----------------------------------------------------------------------------
(* The rate limit.                                                         *)

\* The logins that passed from one time to another.
Passed(a, b) == {j \in DOMAIN passes : a <= passes[j] /\ passes[j] < b}

\* When the window the bucket counts in began.
Began == bucket.resetAt - Window

\* In the bucket's window no more passed than it counted, and than are allowed;
\* in the span before it, whose passes the bucket before counted at most, no more
\* than are allowed either.
RateInv ==
    /\ Began <= now
    /\ \A j \in DOMAIN passes : passes[j] <= now /\ passes[j] < bucket.resetAt
    /\ Cardinality(Passed(Began, bucket.resetAt)) <= bucket.count
    /\ Cardinality(Passed(Began, bucket.resetAt)) <= MaxRequests
    /\ Cardinality(Passed(Began - Window, Began)) <= MaxRequests
    /\ \A t \in Nat : Cardinality(Passed(t, t + Window)) <= 2 * MaxRequests

LEMMA PassesAre ==
    ASSUME AuthTypeOK
    PROVE  /\ DOMAIN passes = 1 .. Len(passes) /\ Len(passes) \in Nat
           /\ \A j \in DOMAIN passes : passes[j] \in Nat
           /\ now \in Nat /\ bucket.count \in Nat /\ bucket.resetAt \in Nat
           /\ bucket = [count |-> bucket.count, resetAt |-> bucket.resetAt]
           /\ Began \in Int
<1>1. passes \in Seq(0 .. MaxTime) /\ now \in 0 .. MaxTime
  BY DEF AuthTypeOK
<1>2. DOMAIN passes = 1 .. Len(passes) /\ Len(passes) \in Nat
  BY <1>1, LenProperties
<1>3. \A j \in DOMAIN passes : passes[j] \in 0 .. MaxTime
  BY <1>1, <1>2, ElementOfSeq
<1>4. /\ bucket.count \in Nat /\ bucket.resetAt \in Nat
      /\ bucket = [count |-> bucket.count, resetAt |-> bucket.resetAt]
  BY DEF AuthTypeOK
<1> QED BY <1>1, <1>2, <1>3, <1>4, AuthBounds DEF Began

LEMMA CountFinite ==
    ASSUME NEW n \in Nat, NEW S \in SUBSET (1 .. n)
    PROVE  IsFiniteSet(S) /\ Cardinality(S) \in Nat
<1>1. IsFiniteSet(1 .. n)
  BY FS_Interval
<1>2. IsFiniteSet(S)
  BY <1>1, FS_Subset
<1> QED BY <1>2, FS_CardinalityType

LEMMA CountMonotone ==
    ASSUME NEW n \in Nat, NEW S \in SUBSET (1 .. n), NEW T \in SUBSET S
    PROVE  Cardinality(T) <= Cardinality(S)
BY CountFinite, FS_Subset

LEMMA CountTogether ==
    ASSUME NEW n \in Nat, NEW S \in SUBSET (1 .. n), NEW T \in SUBSET (1 .. n),
           NEW U \in SUBSET (S \cup T)
    PROVE  Cardinality(U) <= Cardinality(S) + Cardinality(T)
<1>1. /\ IsFiniteSet(S) /\ IsFiniteSet(T) /\ IsFiniteSet(S \cup T)
      /\ Cardinality(S) \in Nat /\ Cardinality(T) \in Nat
      /\ Cardinality(S \cap T) \in Nat /\ Cardinality(S \cup T) \in Nat
      /\ Cardinality(U) \in Nat
  BY CountFinite
<1>2. Cardinality(S \cup T) = Cardinality(S) + Cardinality(T) - Cardinality(S \cap T)
  BY <1>1, FS_Union
<1>3. Cardinality(U) <= Cardinality(S \cup T)
  BY <1>1, FS_Subset
<1> QED BY <1>1, <1>2, <1>3

\* One more login passes now.
LEMMA PassedOneMore ==
    ASSUME AuthTypeOK, passes' = Append(passes, now)
    PROVE  LET new == Len(passes) + 1
           IN  /\ DOMAIN passes' = DOMAIN passes \cup {new} /\ new \notin DOMAIN passes
               /\ passes'[new] = now
               /\ \A j \in DOMAIN passes : passes'[j] = passes[j]
<1>1. passes \in Seq(0 .. MaxTime) /\ now \in 0 .. MaxTime
  BY DEF AuthTypeOK
<1>2. /\ passes' \in Seq(0 .. MaxTime) /\ Len(passes') = Len(passes) + 1
      /\ \A j \in 1 .. Len(passes) : passes'[j] = passes[j]
      /\ passes'[Len(passes) + 1] = now
  BY <1>1, AppendProperties
<1>3. DOMAIN passes' = 1 .. Len(passes) + 1
  BY <1>2, LenProperties
<1> QED BY <1>2, <1>3, PassesAre

\* The bucket's window goes on, and one more passes.
LEMMA RateSameWindow ==
    ASSUME AuthTypeOK, RateInv, UNCHANGED now, now < bucket.resetAt,
           passes' = Append(passes, now),
           bucket' = [bucket EXCEPT !.count = @ + 1], bucket'.count <= MaxRequests
    PROVE  RateInv'
<1> DEFINE new == Len(passes) + 1
           this == Passed(Began, bucket.resetAt)
           last == Passed(Began - Window, Began)
<1>1. /\ bucket'.count = bucket.count + 1 /\ bucket'.resetAt = bucket.resetAt
      /\ Began' = Began
  BY PassesAre DEF Began
<1>2. /\ DOMAIN passes' = DOMAIN passes \cup {new} /\ new \notin DOMAIN passes
      /\ passes'[new] = now /\ \A j \in DOMAIN passes : passes'[j] = passes[j]
  BY PassedOneMore
<1>3. /\ new \in Nat /\ DOMAIN passes' = 1 .. new
      /\ this \in SUBSET (1 .. new) /\ last \in SUBSET (1 .. new)
  BY <1>2, PassesAre DEF Passed
<1>4. \A a, b \in Int : Passed(a, b)' = IF a <= now /\ now < b THEN Passed(a, b) \cup {new}
                                                            ELSE Passed(a, b)
  BY <1>2 DEF Passed
<1>5. /\ Began \in Int /\ bucket.resetAt \in Int /\ Began - Window \in Int /\ now \in Nat
      /\ Window \in Nat \ {0} /\ MaxRequests \in Nat /\ bucket.count \in Nat
  BY PassesAre, AuthBounds
<1>6. /\ Cardinality(this) \in Nat /\ IsFiniteSet(this) /\ Cardinality(last) \in Nat
      /\ Cardinality(this) <= bucket.count /\ Cardinality(last) <= MaxRequests
  BY <1>3, CountFinite DEF RateInv
<1>7. Began <= now
  BY DEF RateInv
<1>8. /\ Passed(Began, bucket.resetAt)' = this \cup {new}
      /\ Passed(Began - Window, Began)' = last
  BY <1>1, <1>4, <1>5, <1>7
<1>9. Cardinality(this \cup {new}) <= bucket.count + 1
  <2> HIDE DEF this, new
  <2>1. Cardinality(this \cup {new}) =
            IF new \in this THEN Cardinality(this) ELSE Cardinality(this) + 1
    BY <1>6, FS_AddElement
  <2> QED BY <1>5, <1>6, <2>1
<1>10. ASSUME NEW t \in Nat
       PROVE  Cardinality(Passed(t, t + Window)') <= 2 * MaxRequests
  <2>1. t + Window \in Int
    BY <1>5
  <2>2. CASE t <= now /\ now < t + Window
    <3>1. Passed(t, t + Window)' \subseteq (this \cup {new}) \cup last
      <4> SUFFICES ASSUME NEW j \in DOMAIN passes, t <= passes[j]
                   PROVE  j \in this \cup last
        BY <1>2 DEF Passed
      <4>1. passes[j] \in Nat /\ passes[j] < bucket.resetAt
        BY PassesAre DEF RateInv
      <4>2. Began - Window <= passes[j]
        BY <1>5, <1>7, <2>2, <4>1
      <4> QED BY <1>5, <4>1, <4>2 DEF Passed
    <3>2. /\ this \cup {new} \in SUBSET (1 .. new)
          /\ Passed(t, t + Window)' \in SUBSET (1 .. new)
      BY <1>3 DEF Passed
    <3>3. Cardinality(Passed(t, t + Window)') <= Cardinality(this \cup {new}) + Cardinality(last)
      BY <1>3, <3>1, <3>2, CountTogether
    <3>4. /\ Cardinality(Passed(t, t + Window)') \in Nat
          /\ Cardinality(this \cup {new}) \in Nat
      BY <1>3, <3>2, CountFinite
    <3>5. Cardinality(this \cup {new}) <= MaxRequests
      BY <1>1, <1>5, <1>9, <3>4
    <3> HIDE DEF this, last, new
    <3> QED BY <1>5, <1>6, <3>3, <3>4, <3>5
  <2>3. CASE ~ (t <= now /\ now < t + Window)
    BY <1>4, <2>1, <2>3 DEF RateInv
  <2> QED BY <2>2, <2>3
<1>11. \A j \in DOMAIN passes' : passes'[j] <= now' /\ passes'[j] < bucket'.resetAt
  BY <1>1, <1>2, <1>5 DEF RateInv
<1>12. /\ Cardinality(Passed(Began, bucket.resetAt))' <= bucket'.count
       /\ Cardinality(Passed(Began, bucket.resetAt))' <= MaxRequests
  <2>1. Cardinality(this \cup {new}) \in Nat
    BY <1>6, FS_AddElement, FS_CardinalityType
  <2>2. Cardinality(this \cup {new}) <= MaxRequests
    <3> HIDE DEF this, new
    <3> QED BY <1>1, <1>5, <1>9, <2>1
  <2>3. Cardinality(Passed(Began, bucket.resetAt))' = Cardinality(this \cup {new})
    BY <1>8
  <2> HIDE DEF this, new
  <2> QED BY <1>1, <1>9, <2>2, <2>3
<1>13. Cardinality(Passed(Began - Window, Began))' <= MaxRequests
  BY <1>6, <1>8
<1> QED BY <1>1, <1>7, <1>10, <1>11, <1>12, <1>13 DEF RateInv

\* The bucket's window is over, and a new one begins with the attempt.
LEMMA RateNewWindow ==
    ASSUME AuthTypeOK, RateInv, UNCHANGED now, now >= bucket.resetAt,
           bucket' = [count |-> 1, resetAt |-> now + Window],
           \/ passes' = passes
           \/ passes' = Append(passes, now) /\ 1 <= MaxRequests
    PROVE  RateInv'
<1> DEFINE new == Len(passes) + 1
           this == Passed(Began, bucket.resetAt)
           added == IF passes' = passes THEN {} ELSE {new}
<1>1. /\ bucket'.count = 1 /\ bucket'.resetAt = now + Window /\ Began' = now
  BY PassesAre, AuthBounds DEF Began
<1>2. /\ DOMAIN passes' = DOMAIN passes \cup added /\ new \notin DOMAIN passes
      /\ \A j \in added : passes'[j] = now
      /\ \A j \in DOMAIN passes : passes'[j] = passes[j]
  <2>1. CASE passes' = passes
    BY <2>1, PassesAre
  <2>2. CASE passes' # passes
    BY <2>2, PassedOneMore
  <2> QED BY <2>1, <2>2
<1>3. /\ new \in Nat /\ DOMAIN passes \subseteq 1 .. new /\ added \subseteq 1 .. new
      /\ DOMAIN passes' \subseteq 1 .. new
  BY <1>2, PassesAre
<1>4. /\ Cardinality(added) \in Nat /\ Cardinality(added) <= 1
      /\ Cardinality(added) <= MaxRequests
  <2>1. CASE added = {}
    BY <2>1, FS_EmptySet, AuthBounds
  <2>2. CASE added # {}
    <3>1. added = {new} /\ 1 <= MaxRequests
      BY <2>2
    <3>2. Cardinality({new}) = 1
      BY FS_Singleton
    <3> HIDE DEF new
    <3>3. Cardinality(added) = 1
      BY <3>1, <3>2
    <3> HIDE DEF added
    <3> QED BY <3>1, <3>3, AuthBounds
  <2> QED BY <2>1, <2>2
<1>5. /\ now \in Nat /\ Window \in Nat \ {0} /\ MaxRequests \in Nat /\ Began <= now
      /\ bucket.resetAt \in Nat /\ Began = bucket.resetAt - Window
  BY PassesAre, AuthBounds DEF RateInv, Began
<1>6. \A j \in DOMAIN passes : passes[j] \in Nat /\ passes[j] < bucket.resetAt
  BY PassesAre DEF RateInv
<1>7. /\ this \in SUBSET (1 .. new) /\ Cardinality(this) \in Nat
      /\ Cardinality(this) <= MaxRequests
  <2>1. this \in SUBSET (1 .. new)
    BY <1>3 DEF Passed
  <2> QED BY <1>3, <2>1, CountFinite DEF RateInv
<1>8. Passed(now, now + Window)' = added
  BY <1>2, <1>5, <1>6 DEF Passed
<1>9. Passed(now - Window, now)' \in SUBSET this
  BY <1>2, <1>5, <1>6 DEF Passed
<1>10. Cardinality(Passed(now - Window, now)') <= MaxRequests
  <2>1. /\ Cardinality(Passed(now - Window, now)') <= Cardinality(this)
        /\ Cardinality(Passed(now - Window, now)') \in Nat
    <3>1. Passed(now - Window, now)' \in SUBSET (1 .. new)
      BY <1>7, <1>9
    <3> HIDE DEF this, new
    <3> QED BY <1>3, <1>7, <1>9, <3>1, CountMonotone, CountFinite
  <2> HIDE DEF this
  <2> QED BY <1>5, <1>7, <2>1
<1>11. ASSUME NEW t \in Nat
       PROVE  Cardinality(Passed(t, t + Window)') <= 2 * MaxRequests
  <2>1. CASE t <= now /\ now < t + Window
    <3>1. Passed(t, t + Window)' \in SUBSET (added \cup this)
      <4> SUFFICES ASSUME NEW j \in DOMAIN passes, t <= passes[j]
                   PROVE  j \in this
        BY <1>2 DEF Passed
      <4> QED BY <1>5, <1>6, <2>1 DEF Passed
    <3>2. Passed(t, t + Window)' \in SUBSET (1 .. new)
      BY <1>3, <1>7, <3>1
    <3> HIDE DEF this, new, added
    <3>3. /\ Cardinality(Passed(t, t + Window)') <= Cardinality(added) + Cardinality(this)
          /\ Cardinality(Passed(t, t + Window)') \in Nat
      BY <1>3, <1>7, <3>1, <3>2, CountTogether, CountFinite
    <3> QED BY <1>4, <1>5, <1>7, <3>3
  <2>2. CASE ~ (t <= now /\ now < t + Window)
    <3>1. Passed(t, t + Window)' = Passed(t, t + Window)
      BY <1>2, <1>5, <2>2 DEF Passed
    <3> QED BY <3>1 DEF RateInv
  <2> QED BY <2>1, <2>2
<1>12. \A j \in DOMAIN passes' : passes'[j] <= now' /\ passes'[j] < bucket'.resetAt
  <2>1. ASSUME NEW j \in DOMAIN passes PROVE passes[j] <= now /\ passes[j] < now + Window
    BY <1>5, <1>6, <2>1 DEF RateInv
  <2> QED BY <1>1, <1>2, <1>5, <2>1
<1>13. /\ Cardinality(Passed(Began, bucket.resetAt))' = Cardinality(added)
       /\ Cardinality(Passed(Began - Window, Began))' <= MaxRequests
       /\ Began' <= now'
  BY <1>1, <1>5, <1>8, <1>10
<1> HIDE DEF added
<1> QED BY <1>1, <1>4, <1>11, <1>12, <1>13 DEF RateInv

\* Without a login that passed, and with an old bucket or none.
LEMMA RateFresh ==
    ASSUME now \in Nat, bucket = NoBucket, passes = <<>>
    PROVE  RateInv
<1>1. \A a, b : Passed(a, b) = {}
  BY DEF Passed
<1>2. Began <= now
  BY AuthBounds DEF Began, NoBucket
<1>3. \A a, b : Cardinality(Passed(a, b)) = 0
  BY <1>1, FS_EmptySet
<1>4. bucket.count = 0 /\ MaxRequests \in Nat /\ DOMAIN passes = {}
  BY AuthBounds DEF NoBucket
<1> QED BY <1>2, <1>3, <1>4 DEF RateInv

\* The rate limit, step by step.
LEMMA RateStep ==
    ASSUME AuthTypeOK, RateInv, NEW known, NextAuth(known)
    PROVE  RateInv'
<1>1. ASSUME UNCHANGED <<bucket, passes>>, now' = now \/ now' = now + 1
      PROVE  RateInv'
  <2>1. \A a, b : Passed(a, b)' = Passed(a, b)
    BY <1>1 DEF Passed
  <2>2. Began' = Began /\ Began <= now' /\ \A j \in DOMAIN passes : passes[j] <= now'
    BY <1>1, PassesAre DEF Began, RateInv
  <2> QED BY <1>1, <2>1, <2>2 DEF RateInv
<1>2. ASSUME NEW q \in Req, Attempt(q) PROVE RateInv'
  <2>1. /\ bucket' = CountedIn /\ UNCHANGED now
        /\ passes' = IF bucket'.count > MaxRequests THEN passes ELSE Append(passes, now)
    BY <1>2 DEF Attempt
  <2>2. CASE now >= bucket.resetAt
    <3>1. bucket' = [count |-> 1, resetAt |-> now + Window] /\ bucket'.count = 1
      BY <2>1, <2>2 DEF CountedIn
    <3>2. passes' = passes \/ (passes' = Append(passes, now) /\ 1 <= MaxRequests)
      BY <2>1, <3>1, AuthBounds
    <3> QED BY <2>1, <2>2, <3>1, <3>2, RateNewWindow
  <2>3. CASE ~ (now >= bucket.resetAt)
    <3>1. now < bucket.resetAt
      BY <2>3, PassesAre
    <3>2. bucket' = [bucket EXCEPT !.count = @ + 1]
      BY <2>1, <2>3 DEF CountedIn
    <3>3. /\ bucket'.count = bucket.count + 1 /\ bucket'.resetAt = bucket.resetAt
          /\ Began' = Began
      BY <3>2, PassesAre DEF Began
    <3>3a. bucket'.count \in Nat /\ MaxRequests \in Nat
      BY <3>3, PassesAre, AuthBounds
    <3>4. CASE bucket'.count <= MaxRequests
      <4>1. passes' = Append(passes, now)
        <5>1. ~ (bucket'.count > MaxRequests)
          BY <3>3a, <3>4
        <5> QED BY <2>1, <5>1
      <4> QED BY <2>1, <3>1, <3>2, <3>4, <4>1, RateSameWindow
    <3>5. CASE ~ (bucket'.count <= MaxRequests)
      <4>1. passes' = passes
        <5>1. bucket'.count > MaxRequests
          BY <3>3a, <3>5
        <5> QED BY <2>1, <5>1
      <4>2. \A a, b : Passed(a, b)' = Passed(a, b)
        BY <4>1 DEF Passed
      <4>3. Cardinality(Passed(Began, bucket.resetAt)) \in Nat
        BY PassesAre, CountFinite DEF Passed
      <4>4. Cardinality(Passed(Began, bucket.resetAt)) <= bucket'.count
        BY <3>3, <4>3, PassesAre DEF RateInv
      <4> QED BY <2>1, <3>3, <4>1, <4>2, <4>4 DEF RateInv
    <3> QED BY <3>4, <3>5
  <2> QED BY <2>2, <2>3
<1>3. CASE RestartApi
  <2>1. now' \in Nat /\ bucket' = NoBucket /\ passes' = <<>>
    BY <1>3, PassesAre DEF RestartApi
  <2>2. (now \in Nat /\ bucket = NoBucket /\ passes = <<>>)' => RateInv'
    BY RateFresh, PTL
  <2> QED BY <2>1, <2>2 DEF NoBucket
<1>4. ASSUME NextAuth(known), ~ \E q \in Req : Attempt(q), ~ RestartApi
      PROVE  UNCHANGED <<bucket, passes>> /\ (now' = now \/ now' = now + 1)
  BY <1>4 DEF NextAuth, Tick, PasswordCompared, Ask, Verify, Unreachable, Check,
              Logout, Rotate, Deliver, Lose, limit
<1> QED BY <1>1, <1>2, <1>3, <1>4

\* What the invariant is for.
LEMMA RateInvLimits ==
    ASSUME AuthTypeOK, RateInv
    PROVE  RateLimited
<1> SUFFICES ASSUME NEW i \in DOMAIN passes
             PROVE  Cardinality({j \in DOMAIN passes :
                        passes[j] \in passes[i] .. passes[i] + Window - 1}) <= 2 * MaxRequests
  BY DEF RateLimited
<1>1. {j \in DOMAIN passes : passes[j] \in passes[i] .. passes[i] + Window - 1}
        = Passed(passes[i], passes[i] + Window)
  BY PassesAre, AuthBounds DEF Passed
<1> QED BY <1>1, PassesAre DEF RateInv

-----------------------------------------------------------------------------
(* The specification.                                                      *)

AuthInv ==
    /\ DeploymentTypeOK /\ MigrationInv /\ AuthTypeOK /\ SessionInv /\ RateInv
    /\ SeedInv /\ account \subseteq admins

LEMMA AuthInit == Init => AuthInv
<1> SUFFICES ASSUME Init PROVE AuthInv
  OBVIOUS
<1> USE DEF Init, InitDeployment, InitAuth
<1>1. DeploymentTypeOK
  BY FilesAre DEF DeploymentTypeOK
<1>2. MigrationInv
  <2>1. 0 \in 0 .. Len(Files) /\ {} = 1 .. 0
    BY FilesAre
  <2>2. MigratedWhole
    BY <2>1, SchemaStep DEF MigratedWhole
  <2>3. RunnersKnow
    BY DEF RunnersKnow
  <2> QED BY <2>2, <2>3 DEF MigrationInv
<1>3. AuthTypeOK
  <2>1. req \in [Req -> ReqRecord]
    BY IdleType
  <2>2. born \in Seq(0 .. MaxTime) /\ passes \in Seq(0 .. MaxTime)
        /\ Len(born) = 0 /\ Len(passes) = 0
    OBVIOUS
  <2>3. jar \in [{"access", "refresh"} -> [pair : Pair \cup {NoPair}, until : Nat]]
    BY DEF NoCookies, NoCookie
  <2>4. /\ now \in 0 .. MaxTime /\ bucket \in [count : Nat, resetAt : Nat]
        /\ MaxPairs \in Nat /\ MaxLogins \in Nat /\ blacklist = {} /\ ended = {}
        /\ restarts \in 0 .. MaxRestarts
    BY AuthBounds DEF NoBucket
  <2> QED BY <2>1, <2>2, <2>3, <2>4 DEF AuthTypeOK, ReqRecord
<1>4. SessionInv
  <2>1. PastGuard
    BY DEF PastGuard, Idle
  <2>2. AllMinted
    BY DEF AllMinted, Minted, Idle, NoCookies, NoCookie
  <2>3. RowsLast /\ EndedStaysBanned
    BY DEF RowsLast, EndedStaysBanned
  <2> QED BY <2>1, <2>2, <2>3 DEF SessionInv
<1>5. RateInv
  BY RateFresh
<1>6. SeedInv
  BY DEF SeedInv
<1> QED BY <1>1, <1>2, <1>3, <1>4, <1>5, <1>6 DEF AuthInv

LEMMA AuthStutter ==
    ASSUME AuthInv, UNCHANGED vars
    PROVE  AuthInv'
<1> USE DEF vars, deployVars, authVars, limit
<1>1. DeploymentTypeOK' /\ AuthTypeOK' /\ (account \subseteq admins)'
  BY DEF AuthInv, DeploymentTypeOK, AuthTypeOK
<1>2. MigrationInv'
  BY DEF AuthInv, MigrationInv, MigratedWhole, RunnersKnow
<1>3. SessionInv'
  BY DEF AuthInv, SessionInv, PastGuard, Shown, AllMinted, Minted, RowsLast, Exp,
         EndedStaysBanned, Banned
<1>4. RateInv' /\ SeedInv'
  BY DEF AuthInv, RateInv, Passed, Began, SeedInv
<1> QED BY <1>1, <1>2, <1>3, <1>4 DEF AuthInv

\* A row that is there stays.
LEMMA AdminsGrow ==
    ASSUME NextDeployment
    PROVE  admins \subseteq admins'
BY DEF NextDeployment, LookUp, Migrate, ApplyFile, ApplyFails, RestartRunner, SeedLookUp,
       SeedInsert, SeedRow

LEMMA AuthInvStep == AuthInv /\ [Next]_vars => AuthInv'
<1> SUFFICES ASSUME AuthInv, [Next]_vars PROVE AuthInv'
  OBVIOUS
<1>1. ASSUME UNCHANGED deployVars PROVE DeploymentTypeOK' /\ MigrationInv' /\ SeedInv'
  BY <1>1 DEF AuthInv, deployVars, DeploymentTypeOK, MigrationInv, MigratedWhole, RunnersKnow,
              SeedInv
<1>2. ASSUME UNCHANGED authVars PROVE AuthTypeOK' /\ SessionInv' /\ RateInv'
  <2>1. AuthTypeOK'
    BY <1>2 DEF AuthInv, authVars, limit, AuthTypeOK
  <2>2. SessionInv'
    BY <1>2 DEF AuthInv, authVars, limit, SessionInv, PastGuard, Shown, AllMinted, Minted,
                RowsLast, Exp, EndedStaysBanned, Banned
  <2>3. RateInv'
    BY <1>2 DEF AuthInv, authVars, limit, RateInv, Passed, Began
  <2> QED BY <2>1, <2>2, <2>3
<1>3. CASE Serve
  BY <1>1, <1>2, <1>3 DEF Serve, AuthInv, deployVars
<1>4. CASE Deploy
  BY <1>2, <1>4, DeploymentTypeStep, MigrationStep, SeedStep, AdminsGrow DEF Deploy, AuthInv
<1>5. CASE Session
  <2>1. NextAuth(account \subseteq admins) /\ UNCHANGED <<deployVars, account>>
    BY <1>5 DEF Session
  <2>2. AuthTypeOK' /\ SessionInv' /\ RateInv'
    <3>1. PastGuard /\ AllMinted
      BY DEF AuthInv, SessionInv
    <3> QED BY <2>1, <3>1, AuthTypeStep, SessionStep, RateStep DEF AuthInv
  <2> QED BY <1>1, <2>1, <2>2 DEF AuthInv, deployVars
<1> QED BY <1>3, <1>4, <1>5, AuthStutter DEF Next

THEOREM AuthInvariant == Spec => []AuthInv
BY AuthInit, AuthInvStep, PTL DEF Spec

\* Every variable keeps its type.
THEOREM TypeCorrect == Spec => []TypeOK
<1>1. AuthInv => TypeOK
  BY DEF AuthInv, TypeOK, DeploymentTypeOK
<1> QED BY <1>1, AuthInvariant, PTL

\* Whatever number of migration processes run beside one another, are killed and
\* are started again: the files recorded are the first of the list, and the tables
\* are what these build (migrate.ts, one transaction per file).
THEOREM MigrationsWhole == Spec => []MigratedWhole
<1>1. AuthInv => MigratedWhole
  BY DEF AuthInv, MigrationInv
<1> QED BY <1>1, AuthInvariant, PTL

\* A migration process that has ended well leaves the schema of all the files,
\* recorded each (runMigrations).
DoneIsComplete ==
    (\E r \in Runner : runner[r].pc = "done") =>
        journal = DOMAIN Files /\ db = SchemaAfter[Len(Files)]

THEOREM MigratedIsComplete == Spec => []DoneIsComplete
<1>1. AuthInv => DoneIsComplete
  <2> SUFFICES ASSUME AuthInv, NEW r \in Runner, runner[r].pc = "done"
               PROVE  journal = DOMAIN Files /\ db = SchemaAfter[Len(Files)]
    BY DEF DoneIsComplete
  <2>1. PICK n \in 0 .. Len(Files) : journal = 1 .. n /\ db = SchemaAfter[n]
    BY DEF AuthInv, MigrationInv, MigratedWhole
  <2>2. Len(Files) \in 1 .. n
    BY <2>1 DEF AuthInv, MigrationInv, RunnersKnow
  <2>3. n = Len(Files)
    <3>1. n \in Nat /\ n <= Len(Files) /\ Len(Files) \in Nat
      BY <2>1, FilesAre
    <3> QED BY <2>2, <3>1
  <2> QED BY <2>1, <2>3, FilesAre
<1> QED BY <1>1, AuthInvariant, PTL

\* A migration process that has ended well leaves the tables, columns, references and
\* unique keys that schema.ts and schema/auth.ts declare.
THEOREM MigratedMatchesCode == Spec => []SchemaMatchesCode
<1>1. DoneIsComplete => SchemaMatchesCode
  BY SchemaAgrees DEF DoneIsComplete, SchemaMatchesCode
<1> QED BY <1>1, MigratedIsComplete, PTL

\* The administrator's row the API began to serve with stays and is the only one,
\* whatever seeds run beside one another and it (seed.ts, INSERT OR IGNORE).
THEOREM AccountStays == Spec => []AccountKept
<1>1. AuthInv => AccountKept
  BY DEF AuthInv, SeedInv, AccountKept
<1> QED BY <1>1, AuthInvariant, PTL

\* In no span as long as the window do more than twice the allowed logins pass
\* (createRateLimit).
THEOREM LoginsLimited == Spec => []RateLimited
<1>1. AuthInv => RateLimited
  BY RateInvLimits DEF AuthInv
<1> QED BY <1>1, AuthInvariant, PTL

\* A token given up by a logout or a refresh stays listed until it expires of itself
\* (auth.ts, the two transactions that clean the blacklist).
THEOREM GivenUpStaysBanned == Spec => []EndedStaysBanned
<1>1. AuthInv => EndedStaysBanned
  BY DEF AuthInv, SessionInv
<1> QED BY <1>1, AuthInvariant, PTL

LEMMA AcceptsChecked ==
    ASSUME AuthInv, AuthInv', [Next]_vars, NEW q \in Req, Accepts(q)
    PROVE  ~ Banned(Shown(q))
<1>1. req[q].pc \in {"verified", "leaving"} /\ req[q].out = "none" /\ req \in [Req -> ReqRecord]
  BY DEF Accepts, AuthInv, SessionInv, PastGuard, AuthTypeOK, ReqRecord
<1>2. ASSUME req'[q] = req[q] PROVE FALSE
  BY <1>1, <1>2 DEF Accepts
<1>3. req' # req
  BY <1>2
<1>4. PICK known : NextAuth(known)
  BY <1>3 DEF Next, Serve, Deploy, Session, vars, authVars, limit
<1>5. CASE Tick \/ RestartApi
  <2>1. CASE Tick
    BY <1>3, <2>1 DEF Tick
  <2>2. CASE RestartApi
    <3>1. req'[q] = Dropped(req[q]) /\ AuthTypeOK
      BY <2>2 DEF RestartApi, AuthInv
    <3>2. Dropped(req[q]).pc = "answered" /\ Dropped(req[q]).out \in {"none", "delete"}
      BY <1>1, <3>1, DroppedIs
    <3> QED BY <3>1, <3>2 DEF Accepts
  <2> QED BY <1>5, <2>1, <2>2
<1>6. ASSUME NEW o \in Req \ {q},
             \/ Attempt(o) \/ PasswordCompared(o) \/ Ask(o) \/ Verify(o)
             \/ Unreachable(o) \/ Check(o, known) \/ Logout(o) \/ Rotate(o)
             \/ Deliver(o) \/ Lose(o)
      PROVE  FALSE
  <2>1. req'[q] = req[q]
    BY <1>1, <1>6 DEF Attempt, PasswordCompared, Ask, Verify, Unreachable, Check, Logout,
                      Rotate, Deliver, Lose, Refused, Answer
  <2> QED BY <1>2, <2>1
<1>7. CASE Check(q, known)
  <2>1. ASSUME Refused(q) PROVE ~ Accepts(q)
    <3>1. req'[q].pc = "answered" /\ req'[q].out \in {"none", "delete"}
      BY <1>1, <2>1 DEF Refused, Answer, ReqRecord
    <3> QED BY <3>1 DEF Accepts
  <2> QED BY <1>7, <2>1 DEF Check
<1>8. CASE Logout(q)
  <2>1. ASSUME Refused(q) PROVE ~ Accepts(q)
    <3>1. req'[q].pc = "answered" /\ req'[q].out \in {"none", "delete"}
      BY <1>1, <2>1 DEF Refused, Answer, ReqRecord
    <3> QED BY <3>1 DEF Accepts
  <2> QED BY <1>8, <2>1 DEF Logout
<1>9. ~ (\/ Attempt(q) \/ PasswordCompared(q) \/ Ask(q) \/ Verify(q)
         \/ Unreachable(q) \/ Rotate(q) \/ Deliver(q) \/ Lose(q))
  BY <1>1 DEF Attempt, PasswordCompared, Ask, Verify, Unreachable, Rotate, Deliver, Lose
<1> QED BY <1>4, <1>5, <1>6, <1>7, <1>8, <1>9 DEF NextAuth

\* No request is let past a guard with a token that was given up, unless that token
\* was verified before its time ran out and looked up after it (requireAuth,
\* POST /logout, POST /refresh).
THEOREM GivenUpNeverAccepted == Spec => EndedStaysEnded
<1>1. ASSUME AuthInv, AuthInv', [Next]_vars
      PROVE  [\A q \in Req : Accepts(q) => Shown(q) \notin ended \/ now >= Exp(Shown(q))]_authVars
  BY <1>1, AcceptsChecked DEF AuthInv, SessionInv, EndedStaysBanned
<1> QED BY <1>1, AuthInvariant, PTL DEF Spec, EndedStaysEnded

=============================================================================
