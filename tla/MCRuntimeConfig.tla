---- MODULE MCRuntimeConfig ----
EXTENDS RuntimeConfig
====
