---- MODULE MCJobReports ----
EXTENDS JobReports
====
