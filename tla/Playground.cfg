CONSTANTS
  Requests = {1, 2}
  NoRequest = 0
  NoKey = 9
  ErrorText = 7
  EditText = 8
  MaxReloads = 1
SPECIFICATION FairSpec
INVARIANTS TypeOK AnswersAreOwn NoneAbandoned NoUnfinishedSent RefIsOpenStream
PROPERTIES ReloadHelps GenerationEnds
