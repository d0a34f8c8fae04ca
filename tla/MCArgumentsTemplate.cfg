CONSTANT
  Names = {x}
SPECIFICATION Spec
INVARIANT
  TemplateShowsFlags
