----------------------------- MODULE SchemaCheck -----------------------------
(***************************************************************************)
(* Schema comparison of a sync configuration and the creation of the tables  *)
(* its target lacks. A table is told by the type of one of its columns, the   *)
(* others being alike; a type is its name, whether it carries a size, and       *)
(* whether the column counts up by itself (auto_increment).                     *)
(***************************************************************************)
EXTENDS FiniteSets

CONSTANTS SchemaTable, CreateRequest,
          ColumnTypes           \* kind of database -> types its columns may have

MySQLKind == {"MYSQL", "MARIADB"}
DbKind == MySQLKind \cup {"POSTGRESQL"}

ASSUME SchemaAssumption ==
    \A k \in DbKind : \A t \in ColumnTypes[k] : t.sized \in BOOLEAN /\ t.auto \in BOOLEAN

VARIABLES
    dbs,            \* kinds of the two databases: [source, target]
    sourceType,     \* SchemaTable -> type in the source
    targetTable,    \* SchemaTable -> [there, type]: the table of the target
    creation,       \* CreateRequest -> [pc, todo, made: types as they were read]
    faithful        \* history: tables made by a request from the present source

schemaVars == <<dbs, sourceType, targetTable, creation, faithful>>

Type(base, sized) == [base |-> base, sized |-> sized, auto |-> FALSE]
NoTable == [there |-> FALSE, type |-> Type("none", FALSE)]

-----------------------------------------------------------------------------
(* checkTypeCompatibility: names without their sizes.                      *)

compatibleMappings(base) ==
    CASE base = "int" -> {"integer", "int4", "bigint", "int8", "smallint", "int2", "tinyint"}
      [] base = "integer" -> {"int", "int4", "bigint", "int8", "smallint", "int2"}
      [] base = "bigint" -> {"int8", "int", "integer", "int4"}
      [] base = "smallint" -> {"int2", "int", "integer", "tinyint"}
      [] base = "tinyint" -> {"smallint", "int2", "int"}
      [] base = "varchar" -> {"character varying", "text", "char", "character"}
      [] base = "text" -> {"varchar", "character varying", "longtext", "mediumtext"}
      [] base = "char" -> {"character", "varchar", "character varying"}
      [] base = "decimal" -> {"numeric", "double", "float", "real"}
      [] base = "numeric" -> {"decimal", "double", "float"}
      [] base = "float" -> {"real", "double", "numeric", "decimal"}
      [] base = "double" -> {"double precision", "float", "real"}
      [] base = "datetime" -> {"timestamp", "timestamp without time zone"}
      [] base = "timestamp" -> {"datetime", "timestamp without time zone",
                                "timestamp with time zone"}
      [] base = "time" -> {"time without time zone"}
      [] base \in {"boolean", "bool"} -> {"boolean", "bool"}
      [] base = "blob" -> {"bytea", "binary", "varbinary"}
      [] base = "bytea" -> {"blob", "binary", "varbinary"}
      [] OTHER -> {}

\* Mutant: the mapping is looked up for the source only.
compatibleForward(s, t) == s = t \/ t \in compatibleMappings(s)

checkTypeCompatibility(s, t) ==
    s = t \/ t \in compatibleMappings(s) \/ s \in compatibleMappings(t)

-----------------------------------------------------------------------------
(* convertTypeForTarget and safeColumnType.                                *)

ToPostgres(base) ==
    CASE base \in {"int", "mediumint"} -> "integer"
      [] base \in {"tinyint", "smallint"} -> "smallint"
      [] base = "float" -> "real"
      [] base = "double" -> "double precision"
      [] base = "decimal" -> "numeric"
      [] base \in {"mediumtext", "longtext"} -> "text"
      [] base \in {"blob", "mediumblob", "longblob"} -> "bytea"
      [] base = "datetime" -> "timestamp"
      [] OTHER -> base

ToMySQL(base) ==
    CASE base \in {"integer", "int4"} -> "int"
      [] base = "int2" -> "smallint"
      [] base = "int8" -> "bigint"
      [] base = "real" -> "float"
      [] base = "double precision" -> "double"
      [] base = "numeric" -> "decimal"
      [] base = "character varying" -> "varchar"
      [] base = "character" -> "char"
      [] base = "bytea" -> "blob"
      [] base \in {"timestamp", "timestamp without time zone",
                   "timestamp with time zone"} -> "datetime"
      [] base = "time without time zone" -> "time"
      [] base = "bool" -> "boolean"
      [] OTHER -> base

\* Names that a map knows lose their size; the others are passed on as they are.
MappedFromMySQL == {"int", "tinyint", "smallint", "mediumint", "bigint", "float",
                    "double", "decimal", "varchar", "char", "text", "mediumtext",
                    "longtext", "blob", "mediumblob", "longblob", "datetime",
                    "timestamp", "date", "time", "boolean", "bool"}
MappedFromPostgres == {"integer", "int4", "int2", "int8", "smallint", "bigint", "real",
                       "double precision", "numeric", "character varying", "character",
                       "text", "bytea", "timestamp", "timestamp without time zone",
                       "timestamp with time zone", "date", "time",
                       "time without time zone", "boolean", "bool"}

\* What a map does not know is checked: an enum is text to PostgreSQL.
convertTypeForTarget(type, source, target) ==
    CASE source \in MySQLKind /\ target = "POSTGRESQL" ->
            Type(IF type.base \in {"enum", "set"} THEN "text" ELSE ToPostgres(type.base),
                 type.sized /\ type.base \notin MappedFromMySQL \cup {"enum", "set"})
      [] source = "POSTGRESQL" /\ target \in MySQLKind ->
            Type(ToMySQL(type.base), type.sized /\ type.base \notin MappedFromPostgres)
      [] OTHER -> type

\* A column that counts up is SERIAL to PostgreSQL, whatever its type.
generateColumnDefinition(type, source, target) ==
    IF type.auto /\ target = "POSTGRESQL" THEN Type("serial", FALSE)
    ELSE convertTypeForTarget(type, source, target)

-----------------------------------------------------------------------------
(* What the target makes of a type: external.                              *)

Accepts(type, target) ==
    IF target = "POSTGRESQL"
    THEN type.base \notin {"tinytext", "varbinary", "tinyint", "mediumint",
                           "datetime", "double", "blob", "longblob", "mediumblob",
                           "mediumtext", "longtext", "ARRAY", "binary", "year"}
    ELSE /\ type.base = "uuid" => target = "MARIADB"
         /\ type.base \notin {"jsonb", "ARRAY", "bytea", "character varying",
                              "timestamp without time zone",
                              "timestamp with time zone", "time without time zone"}
         /\ type.base = "varchar" => type.sized

\* The name under which the catalog, read by getDbInfo, gives it back.
Reported(type, target) ==
    IF target = "POSTGRESQL"
    THEN CASE type.base = "varchar" /\ ~type.sized -> Type("character varying", FALSE)
           [] type.base = "char" -> Type("character", FALSE)
           [] type.base = "timestamp" -> Type("timestamp without time zone", FALSE)
           [] type.base = "time" -> Type("time without time zone", FALSE)
           [] type.base = "serial" -> Type("integer", FALSE)
           [] OTHER -> type
    ELSE CASE type.base = "boolean" -> Type("tinyint", TRUE)
           [] type.base \in {"char", "decimal"} -> Type(type.base, TRUE)
           [] type.base = "json" /\ target = "MARIADB" -> Type("longtext", FALSE)
           [] OTHER -> type

-----------------------------------------------------------------------------

SchemaTypeOK ==
    /\ dbs \in [source : DbKind, target : DbKind]
    /\ sourceType \in [SchemaTable -> ColumnTypes[dbs.source]]
    /\ \A t \in SchemaTable : targetTable[t].there \in BOOLEAN
    /\ \A r \in CreateRequest : /\ creation[r].pc \in {"idle", "create"}
                                /\ creation[r].todo \subseteq SchemaTable
    /\ faithful \subseteq SchemaTable

SchemaInit ==
    /\ dbs \in [source : DbKind, target : DbKind]
    /\ sourceType \in [SchemaTable -> ColumnTypes[dbs.source]]
    /\ targetTable = [t \in SchemaTable |-> NoTable]
    /\ creation = [r \in CreateRequest |-> [pc |-> "idle", todo |-> {},
                                            made |-> [t \in SchemaTable |-> NoTable.type]]]
    /\ faithful = {}

compareTable(t) ==
    targetTable[t].there
        /\ checkTypeCompatibility(sourceType[t].base, targetTable[t].type.base)

\* The comparison, and the source read once more for the definitions.
createMissingTables(r) ==
    /\ creation[r].pc = "idle"
    /\ \E tables \in SUBSET {t \in SchemaTable : ~targetTable[t].there} :
          /\ tables # {}
          /\ creation' = [creation EXCEPT ![r] =
                [pc |-> "create", todo |-> tables, made |-> sourceType]]
    /\ UNCHANGED <<dbs, sourceType, targetTable, faithful>>

\* CREATE TABLE IF NOT EXISTS; the first statement that fails ends the request.
createTable(r) ==
    /\ creation[r].pc = "create"
    /\ \E t \in creation[r].todo :
          LET type == generateColumnDefinition(creation[r].made[t], dbs.source, dbs.target)
              left == creation[r].todo \ {t}
          IN IF targetTable[t].there
             THEN /\ creation' = [creation EXCEPT ![r].todo = left,
                                     ![r].pc = IF left = {} THEN "idle" ELSE "create"]
                  /\ UNCHANGED <<targetTable, faithful>>
             ELSE IF Accepts(type, dbs.target)
             THEN /\ creation' = [creation EXCEPT ![r].todo = left,
                                     ![r].pc = IF left = {} THEN "idle" ELSE "create"]
                  /\ targetTable' = [targetTable EXCEPT ![t] =
                                        [there |-> TRUE, type |-> Reported(type, dbs.target)]]
                  /\ faithful' = IF creation[r].made[t] = sourceType[t]
                                 THEN faithful \cup {t} ELSE faithful
             ELSE /\ creation' = [creation EXCEPT ![r].pc = "idle", ![r].todo = {}]
                  /\ UNCHANGED <<targetTable, faithful>>
    /\ UNCHANGED <<dbs, sourceType>>

alterSource(t) ==
    /\ \E type \in ColumnTypes[dbs.source] \ {sourceType[t]} :
          sourceType' = [sourceType EXCEPT ![t] = type]
    /\ faithful' = faithful \ {t}
    /\ UNCHANGED <<dbs, targetTable, creation>>

dropTarget(t) ==
    /\ targetTable[t].there /\ targetTable' = [targetTable EXCEPT ![t] = NoTable]
    /\ faithful' = faithful \ {t}
    /\ UNCHANGED <<dbs, sourceType, creation>>

SchemaNext ==
    \/ \E r \in CreateRequest : createMissingTables(r) \/ createTable(r)
    \/ \E t \in SchemaTable : alterSource(t) \/ dropTarget(t)

SchemaSpec == SchemaInit /\ [][SchemaNext]_schemaVars

-----------------------------------------------------------------------------

\* What comes back under a name that the table of compatible types does not pair with
\* that of the source.
Unmatched(column) ==
    /\ dbs.source # dbs.target
    /\ \/ /\ dbs.target = "POSTGRESQL"
          /\ column.base \in IF column.auto THEN {"tinyint", "mediumint", "float", "double"}
                ELSE {"mediumint", "mediumblob", "longblob", "enum", "set"}
       \/ dbs.source = "POSTGRESQL" /\ column.base \in {"boolean", "timestamp with time zone"}
       \/ dbs.target = "MARIADB" /\ column.base = "json"

\* The tables that a request made pass the comparison that a configuration must
\* pass before it is activated, two requests at a time and a source that is altered;
\* between two kinds of database those with a column of Unmatched do not, and their
\* configuration is refused for a table that the service has made itself
\* (schema-validator.service.ts, createMissingTables, checkTypeCompatibility).
CreatedPasses ==
    \A t \in faithful : compareTable(t) <=> ~Unmatched(sourceType[t])
=============================================================================
