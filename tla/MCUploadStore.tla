--------------------------- MODULE MCUploadStore ---------------------------
\* Instance of UploadStore for TLC: the constants are ordinary values of the cfg.
EXTENDS UploadStore
=============================================================================
