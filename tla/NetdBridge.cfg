\* One UI caller, netd answering, dropping or broadcasting, the listener.
\* Three calls with CMDNUM_MAX 3: the wrap of mCmdNum is taken, no number
\* is issued twice.
CONSTANTS
  MaxCalls = 3
  CmdNumMax = 3
  MaxBytes = 4
  Codes = {200, 213}
  MaxArgs = 4
  MaxBroadcasts = 1
  Answers <- MCAnswers
  Broadcasts <- MCBroadcasts
SPECIFICATION Spec
CONSTRAINT Bounds
INVARIANT TypeOK ReturnsOwnResponse PackIsLongestFit TokenizeInvertsEncode
