---- MODULE MCModelStore ----
EXTENDS ModelStore
====
