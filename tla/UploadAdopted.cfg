\* One upload (uploads share neither names nor records), two inode numbers,
\* three calls that fail, two deaths of the process, one file of a user.
CONSTANTS
  Uploads = {u1}
  Inodes = {i1, i2}
  None = None
  MaxFaults = 3
  MaxCrashes = 2
  MaxUser = 1
SPECIFICATION SpecUploads
INVARIANT ActivatedKept
CHECK_DEADLOCK FALSE
