SPECIFICATION Spec
CONSTANTS
  Width = 2
  Height = 3
  Word = 8
  InputSize = 5
  MaxClimb = 1
  Chars <- MCChars
  PromptText <- MCPrompt
  BannerText <- MCBanner
  ExitText <- MCExit
INVARIANTS
  LineOnScreen
PROPERTIES
  PromptNotErased
