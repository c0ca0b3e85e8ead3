---- MODULE MCRemedies ----
EXTENDS Remedies
====
