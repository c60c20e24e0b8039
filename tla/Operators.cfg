SPECIFICATION InputSpec
CONSTANTS
  Texts = {a, b}
  MaxLen = 6
  MaxTranscript = 3
  MaxLines = 4
  MaxMessages = 4
  ContextSize = 2
  SearchLimit = 2
  WiringVersion = 1
  Lifecycle <- LifecycleOfTwo
  Supporting = {"references/note.md"}
  Unsafe = {"secret.env"}
INVARIANTS
  TraceOfAPass
  AnyHostIsRead
  AnswersAreComplete
  InstallIsIdempotent
  PublishedOrRefused
