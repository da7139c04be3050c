------------------------------ MODULE MCChecks ------------------------------
(* Two databases, one of a class that is not known, a load balancer with a *)
(* check and one without, and alarms that are theirs or only look so.  The *)
(* limit is two pages of one alarm: the third alarm is cut off.  The unit  *)
(* is a ten-thousandth: a latency of 0.0004 is printed as 0.000, one of    *)
(* 0.0016 as 0.002, and of the two that lie half-way 0.0025 goes down to   *)
(* 0.002 and 0.0035 up to 0.004.                                           *)
EXTENDS Checks
MCDatabases ==
  {[name |-> "db1", maxConnections |-> 104000, minMemory |-> 50007],
   [name |-> "db2", maxConnections |-> 0, minMemory |-> 0]}
MCBalancers == {[name |-> "lb1", health |-> "http"], [name |-> "lb2", health |-> "huge port"]}
Alarm(db, metric, threshold) ==
  [namespace |-> "AWS/RDS", db |-> db, metric |-> metric, threshold |-> threshold,
   average |-> TRUE, greater |-> TRUE]
Kinds ==
  {Alarm("db1", "CPUUtilization", 750000), Alarm("db1", "CPUUtilization", 300000),
   Alarm("db2", "CPUUtilization", 600000), Alarm("db2", "DatabaseConnections", 7000),
   Alarm("db1", "DatabaseConnections", 0), Alarm("db1", "ReadLatency", 4), Alarm("db1", "WriteLatency", 16),
   Alarm("db1", "ReadLatency", 25), Alarm("db2", "ReadLatency", 35),
   [Alarm("db1", "ReadLatency", 20) EXCEPT !.average = FALSE],
   [Alarm("db1", "CPUUtilization", 100000) EXCEPT !.namespace = "Custom"]}
Busiest == <<Alarm("db1", "CPUUtilization", 750000), Alarm("db2", "CPUUtilization", 600000),
             Alarm("db1", "FreeableMemory", 200000)>>
MCAlarmLists ==
  {<<>>, Busiest} \cup {<<a>> : a \in Kinds}
    \cup {<<Alarm("db1", "CPUUtilization", 750000), a>> : a \in Kinds}
MCContacts == {"slack"}
=============================================================================
